---- MODULE Spec2Model ----
(***************************************************************************)
(* Model of scripts/trace_parser.py (class TraceParser): the trace loader  *)
(* with warm-up exclusion, the interval-union critical I/O calculator and  *)
(* the recursive hierarchical critical-path aggregator; of                 *)
(* scripts/trace_statistics.py (class TraceStatistics) and of the commit   *)
(* batch loader of scripts/dataUtils.py.                                   *)
(*                                                                         *)
(* Representation.                                                         *)
(*  - A span is a record whose fields are options: <<>> is an absent key   *)
(*    (or a JSON null), <<v>> a key holding v.  dict.get(k, d) is Get.     *)
(*  - Span names and patterns are strings; lower(), startswith() and the   *)
(*    substring test are computed character by character.                  *)
(*  - timestamp and duration are integer microseconds, as in the file.     *)
(*    The code divides both by 1000 (true division) and then only adds,    *)
(*    subtracts, compares and takes maxima of the quotients, all of which  *)
(*    commute with the scaling; every *_ms value v of the code is held     *)
(*    here exactly, as the integer 1000*v (microseconds).  Floating-point  *)
(*    rounding is not modelled.                                            *)
(*  - A span with the key 'tags' has the further field tags; the running   *)
(*    recursive aggregation is a stack of calls (stack, visits).           *)
(***************************************************************************)
EXTENDS Integers, Sequences, FiniteSets, TLC

VARIABLES
    pc,                 \* "new" | "loaded" | "ready" | "failed": position in __init__
    file,               \* the trace file named by trace_file_path
    warmup_iterations,  \* self.warmup_iterations
    traces,             \* self.traces
    error,              \* the exception __init__ raised ("none" when it returned)
    result,             \* outcome of the most recent metric call
    calls,              \* number of metric calls made so far
    durations,          \* the sample list handed to TraceStatistics
    benchmark_dirs,     \* all_benchmark_dirs of load_all_commit_data
    new_dir,            \* (new_commit_hash, new_dir_path) of load_all_commit_data
    dir_index,          \* position of load_all_commit_data in all_benchmark_dirs
    commits_data,       \* commits_data of load_all_commit_data
    stack,              \* the call stack of the recursive aggregator
    visits              \* span position |-> number of calls of _aggregate_span_recursive

vars == <<pc, file, warmup_iterations, traces, error, result, calls,
          durations, benchmark_dirs, new_dir, dir_index, commits_data,
          stack, visits>>

\* the state of the parser object
parserVars == <<pc, file, warmup_iterations, traces, error>>

\* the sample list of the statistics engine
statsVars == <<durations>>

\* the state of load_all_commit_data
batchVars == <<benchmark_dirs, new_dir, dir_index, commits_data>>

\* the state of a running recursive aggregation
walkVars == <<stack, visits>>

-----------------------------------------------------------------------------
(* Bounds of the model *)

\* longest trace list of a file
MaxTraces == 3
\* largest warmup_iterations tried (0 .. MaxWarmup)
MaxWarmup == 3
\* one model tick, in microseconds (50 ms)
Tick == 50000
\* longest trace given to the interval-union calculator
MaxSpans == 2
\* spans of the calculators' inputs start at 0 .. MaxStartTick ticks
MaxStartTick == 2
\* spans of the interval-union inputs last 0 .. MaxDurTick ticks
MaxDurTick == 2
\* most descendants of the root in the aggregator's inputs
MaxChildren == 2
\* metric calls followed on one parser
MaxCalls == 2

-----------------------------------------------------------------------------
(* Options: dict keys that may be absent *)

None == <<>>

Some(v) == <<v>>

\* dict.get(key, default)
Get(opt, default) == IF opt = <<>> THEN default ELSE opt[1]

-----------------------------------------------------------------------------
(* Strings *)

UpperCase == "ABCDEFGHIJKLMNOPQRSTUVWXYZ"

LowerCase == "abcdefghijklmnopqrstuvwxyz"

UpperSet == {SubSeq(UpperCase, i, i) : i \in 1..26}

LowerOf ==
    [c \in UpperSet |->
        LET i == CHOOSE j \in 1..26 : SubSeq(UpperCase, j, j) = c
        IN  SubSeq(LowerCase, i, i)]

LowerChar(c) == IF c \in UpperSet THEN LowerOf[c] ELSE c

RECURSIVE Lower(_)
\* str.lower()
Lower(s) ==
    IF Len(s) = 0 THEN ""
    ELSE LowerChar(SubSeq(s, 1, 1)) \o Lower(SubSeq(s, 2, Len(s)))

\* str.startswith(p)
StartsWith(s, p) == Len(p) <= Len(s) /\ SubSeq(s, 1, Len(p)) = p

\* sub in s
Contains(s, sub) ==
    \E i \in 1..(Len(s) - Len(sub) + 1) : SubSeq(s, i, i + Len(sub) - 1) = sub

-----------------------------------------------------------------------------
(* Sequences *)

Range(s) == {s[i] : i \in 1..Len(s)}

\* a list comprehension, built once as a tuple
List(f) == <<>> \o f

RECURSIVE SumSeq(_)
\* sum(list)
SumSeq(s) == IF s = <<>> THEN 0 ELSE s[1] + SumSeq(Tail(s))

\* max(list) of a non-empty list
MaxSeq(s) == CHOOSE m \in Range(s) : \A x \in Range(s) : x <= m

\* min(set) of a non-empty set of integers
MinSet(S) == CHOOSE m \in S : \A x \in S : m <= x

\* a <= b on sort keys, where the key <<>> stands for float('inf')
KeyLeq(a, b) == b = <<>> \/ (a # <<>> /\ a[1] <= b[1])

\* Position of a new element x in an already sorted list s: behind every
\* element whose key is not greater than x's.
InsertSorted(s, x) ==
    LET n == Cardinality({i \in 1..Len(s) : KeyLeq(s[i].k, x.k)})
    IN  SubSeq(s, 1, n) \o <<x>> \o SubSeq(s, n + 1, Len(s))

RECURSIVE StableSort(_)
\* list.sort(key=...) / sorted(list, key=...): a stable sort of records
\* [k |-> key, v |-> element] by k.
StableSort(s) ==
    IF s = <<>> THEN <<>>
    ELSE InsertSorted(StableSort(SubSeq(s, 1, Len(s) - 1)), s[Len(s)])

-----------------------------------------------------------------------------
(* The trace file.  kind "missing": no such file; "garbage": the file is   *)
(* not valid JSON; "object": a JSON object.  hasRaw: the object has the    *)
(* key 'rawData'; rawJson: the rawData string is valid JSON; payload: the  *)
(* value that string serializes.                                           *)

MissingFile == [kind |-> "missing", hasRaw |-> FALSE, rawJson |-> FALSE, payload |-> <<>>]

GarbageFile == [kind |-> "garbage", hasRaw |-> FALSE, rawJson |-> FALSE, payload |-> <<>>]

NoRawDataFile == [kind |-> "object", hasRaw |-> FALSE, rawJson |-> FALSE, payload |-> <<>>]

BadRawDataFile == [kind |-> "object", hasRaw |-> TRUE, rawJson |-> FALSE, payload |-> <<>>]

\* json.dumps: the wrapper document whose rawData serializes trs
WrapperFile(trs) == [kind |-> "object", hasRaw |-> TRUE, rawJson |-> TRUE, payload |-> trs]

\* Variant: the key 'rawData' is read without a default, so that a wrapper
\* lacking it raises (KeyError, turned into ValueError).
LoadTracesDirect_NoDefault(f) ==
    IF f.kind = "missing" THEN [raised |-> "ValueError", value |-> <<>>]
    ELSE IF f.kind = "garbage" THEN [raised |-> "ValueError", value |-> <<>>]
    ELSE IF ~f.hasRaw THEN [raised |-> "ValueError", value |-> <<>>]
    ELSE IF ~f.rawJson THEN [raised |-> "ValueError", value |-> <<>>]
    ELSE [raised |-> "none", value |-> f.payload]

\* json.loads(wrapper_data.get('rawData', '[]')), with every exception
\* turned into ValueError
LoadTracesDirect(f) ==
    IF f.kind = "missing" THEN [raised |-> "ValueError", value |-> <<>>]
    ELSE IF f.kind = "garbage" THEN [raised |-> "ValueError", value |-> <<>>]
    ELSE IF ~f.hasRaw THEN [raised |-> "none", value |-> <<>>]
    ELSE IF ~f.rawJson THEN [raised |-> "ValueError", value |-> <<>>]
    ELSE [raised |-> "none", value |-> f.payload]

-----------------------------------------------------------------------------
(* Warm-up exclusion *)

IsBenchmarkSpan(span) ==
    /\ span.name # <<>>
    /\ LET name_lower == Lower(span.name[1])
       IN  Contains(name_lower, "http") /\ Contains(name_lower, "benchmark/analyze")

IsBenchmarkTrace(trace) == \E i \in 1..Len(trace) : IsBenchmarkSpan(trace[i])

\* min(span.get('timestamp', float('inf')) for span in trace), as a sort key
MinTimestampKey(trace) ==
    LET present == {trace[i].timestamp[1] : i \in {j \in 1..Len(trace) : trace[j].timestamp # <<>>}}
    IN  IF present = {} THEN <<>> ELSE <<MinSet(present)>>

\* trace[0].get('traceId', '')
FirstTraceId(trace) == Get(trace[1].traceId, "")

\* The filter of lines 67-72: drop every non-empty trace whose first span
\* carries one of the ids.
DropTraceIds(trs, ids) ==
    LET Keep(trace) == ~(trace # <<>> /\ FirstTraceId(trace) \in ids)
    IN  SelectSeq(trs, Keep)

\* Variant: the benchmark traces are not sorted by start time before the
\* first w of them are taken.
ExcludeWarmupIterations_NoSort(trs, w) ==
    IF w <= 0 THEN trs
    ELSE
      LET benchmark_traces == SelectSeq(trs, IsBenchmarkTrace)
      IN  IF Len(benchmark_traces) <= w THEN trs
          ELSE DropTraceIds(trs, {FirstTraceId(benchmark_traces[i]) : i \in 1..w})

\* Variant: no test for too few benchmark traces; the slice [:w] then takes
\* as many as there are.
ExcludeWarmupIterations_NoCheck(trs, w) ==
    IF w <= 0 THEN trs
    ELSE
      LET benchmark_traces == SelectSeq(trs, IsBenchmarkTrace)
          keyed  == [i \in 1..Len(benchmark_traces) |->
                        [k |-> MinTimestampKey(benchmark_traces[i]),
                         v |-> benchmark_traces[i]]]
          sorted == StableSort(keyed)
          n      == IF w < Len(sorted) THEN w ELSE Len(sorted)
      IN  DropTraceIds(trs, {FirstTraceId(sorted[i].v) : i \in 1..n})

\* Variant: exclusion is skipped only when there are fewer benchmark traces
\* than warm-up iterations (< instead of <=).
ExcludeWarmupIterations_Strict(trs, w) ==
    IF w <= 0 THEN trs
    ELSE
      LET benchmark_traces == SelectSeq(trs, IsBenchmarkTrace)
      IN  IF Len(benchmark_traces) < w THEN trs
          ELSE
            LET keyed  == [i \in 1..Len(benchmark_traces) |->
                              [k |-> MinTimestampKey(benchmark_traces[i]),
                               v |-> benchmark_traces[i]]]
                sorted == StableSort(keyed)
            IN  DropTraceIds(trs, {FirstTraceId(sorted[i].v) : i \in 1..w})

\* TraceParser._exclude_warmup_iterations
ExcludeWarmupIterations(trs, w) ==
    IF w <= 0 THEN trs
    ELSE
      LET benchmark_traces == SelectSeq(trs, IsBenchmarkTrace)
      IN  IF Len(benchmark_traces) <= w THEN trs
          ELSE
            LET keyed  == [i \in 1..Len(benchmark_traces) |->
                              [k |-> MinTimestampKey(benchmark_traces[i]),
                               v |-> benchmark_traces[i]]]
                sorted == StableSort(keyed)
                warmup_trace_ids == {FirstTraceId(sorted[i].v) : i \in 1..w}
            IN  DropTraceIds(trs, warmup_trace_ids)

-----------------------------------------------------------------------------
(* Pattern matching *)

\* any(span.get('name', '').lower().startswith(pattern) for pattern in patterns)
MatchesAny(span, patterns) ==
    LET span_name == Lower(Get(span.name, ""))
    IN  \E i \in 1..Len(patterns) : StartsWith(span_name, patterns[i])

\* [span for span in trace if any(... for pattern in patterns)]
MatchingSpans(trace, patterns) ==
    LET Matches(span) == MatchesAny(span, patterns)
    IN  SelectSeq(trace, Matches)

-----------------------------------------------------------------------------
(* Interval-union critical I/O calculator *)

Max2(a, b) == IF a >= b THEN a ELSE b

\* Variant: on an overlap the current interval's end is set to the next
\* interval's end, without the max.
RECURSIVE MergeFrom_NoMax(_, _, _, _)
MergeFrom_NoMax(intervals, i, current_interval, merged) ==
    IF i > Len(intervals) THEN Append(merged, current_interval)
    ELSE
      LET next_interval == intervals[i]
      IN  IF next_interval.start <= current_interval.end
          THEN MergeFrom_NoMax(intervals, i + 1,
                   [current_interval EXCEPT
                       !.end = next_interval.end,
                       !.duration = next_interval.end - current_interval.start],
                   merged)
          ELSE MergeFrom_NoMax(intervals, i + 1, next_interval, Append(merged, current_interval))

MergeIntervals_NoMax(intervals) ==
    IF intervals = <<>> THEN <<>>
    ELSE MergeFrom_NoMax(intervals, 2, intervals[1], <<>>)

RECURSIVE MergeFrom(_, _, _, _)
\* The loop of _merge_intervals from index i on (1-based), with the current
\* open interval and the list of closed ones.  The 'merged_spans' debugging
\* list of the current interval is not kept.
MergeFrom(intervals, i, current_interval, merged) ==
    IF i > Len(intervals) THEN Append(merged, current_interval)
    ELSE
      LET next_interval == intervals[i]
      IN  IF next_interval.start <= current_interval.end
          THEN MergeFrom(intervals, i + 1,
                   [current_interval EXCEPT
                       !.end = Max2(current_interval.end, next_interval.end),
                       !.duration = Max2(current_interval.end, next_interval.end)
                                        - current_interval.start],
                   merged)
          ELSE MergeFrom(intervals, i + 1, next_interval, Append(merged, current_interval))

\* Variant: the last open interval is not added to the result.
MergeIntervals_DropLast(intervals) ==
    IF intervals = <<>> THEN <<>>
    ELSE LET all == MergeFrom(intervals, 2, intervals[1], <<>>)
         IN  SubSeq(all, 1, Len(all) - 1)

\* TraceParser._merge_intervals
MergeIntervals(intervals) ==
    IF intervals = <<>> THEN <<>>
    ELSE MergeFrom(intervals, 2, intervals[1], <<>>)

\* the interval of one I/O span (lines 326-336)
IntervalOf(span) ==
    LET start_time == Get(span.timestamp, 0)
        duration   == Get(span.duration, 0)
    IN  [start |-> start_time, end |-> start_time + duration,
         duration |-> duration, span_id |-> span.id[1]]

\* Variant: the intervals are merged in list order, without the sort.
SortedIntervals_Unsorted(io_spans) ==
    [i \in 1..Len(io_spans) |-> IntervalOf(io_spans[i])]

\* intervals.sort(key=lambda x: x['start']) of the intervals of io_spans
SortedIntervals(io_spans) ==
    LET keyed == [i \in 1..Len(io_spans) |->
                     [k |-> <<IntervalOf(io_spans[i]).start>>, v |-> IntervalOf(io_spans[i])]]
        sorted == StableSort(keyed)
    IN  [i \in 1..Len(sorted) |-> sorted[i].v]

\* sum(interval['duration'] for interval in merged_intervals)
TotalDuration(merged_intervals) ==
    SumSeq([i \in 1..Len(merged_intervals) |-> merged_intervals[i].duration])

NoTraceRecord ==
    [trace_id |-> "", critical_io_ms |-> 0, spans_count |-> 0, execution_pattern |-> "no_trace"]

\* Variant: a trace without I/O spans falls through to the merge and is
\* reported like a measured trace.
UnionRecord_NoMarker(trace, patterns) ==
    IF trace = <<>> THEN NoTraceRecord
    ELSE
      LET io_spans == MatchingSpans(trace, patterns)
      IN  [trace_id |-> FirstTraceId(trace),
           critical_io_ms |-> TotalDuration(MergeIntervals(SortedIntervals(io_spans))),
           spans_count |-> Len(io_spans),
           execution_pattern |-> "union_intervals"]

\* the record _get_critical_io_union_intervals appends for one trace
UnionRecord(trace, patterns) ==
    IF trace = <<>> THEN NoTraceRecord
    ELSE
      LET io_spans == MatchingSpans(trace, patterns)
      IN  IF io_spans = <<>>
          THEN [trace_id |-> FirstTraceId(trace), critical_io_ms |-> 0,
                spans_count |-> 0, execution_pattern |-> "no_io_spans"]
          ELSE [trace_id |-> FirstTraceId(trace),
                critical_io_ms |-> TotalDuration(MergeIntervals(SortedIntervals(io_spans))),
                spans_count |-> Len(io_spans),
                execution_pattern |-> "union_intervals"]

\* span['id'] of line 334 raises KeyError for an I/O span without 'id'
UnionRaises(trace, patterns) ==
    \E i \in 1..Len(trace) : MatchesAny(trace[i], patterns) /\ trace[i].id = <<>>

\* TraceParser._get_critical_io_union_intervals
GetCriticalIoUnionIntervals(trs, patterns) ==
    IF \E i \in 1..Len(trs) : UnionRaises(trs[i], patterns)
    THEN [raised |-> "KeyError", value |-> <<>>]
    ELSE [raised |-> "none", value |-> [i \in 1..Len(trs) |-> UnionRecord(trs[i], patterns)]]

-----------------------------------------------------------------------------
(* Recursive hierarchical critical-path aggregator *)

\* Variant: a span that starts exactly when the previous one ends counts as
\* concurrent (<= instead of <).
CheckConcurrency_Touching(spans) ==
    IF Len(spans) <= 1 THEN FALSE
    ELSE
      LET keyed == [i \in 1..Len(spans) |-> [k |-> <<spans[i].timestamp>>, v |-> spans[i]]]
          sorted_spans == StableSort(keyed)
      IN  \E i \in 1..(Len(sorted_spans) - 1) :
              sorted_spans[i + 1].v.timestamp
                  <= sorted_spans[i].v.timestamp + sorted_spans[i].v.duration_ms

\* TraceParser._check_concurrency
CheckConcurrency(spans) ==
    IF Len(spans) <= 1 THEN FALSE
    ELSE
      LET keyed == [i \in 1..Len(spans) |-> [k |-> <<spans[i].timestamp>>, v |-> spans[i]]]
          sorted_spans == StableSort(keyed)
      IN  \E i \in 1..(Len(sorted_spans) - 1) :
              sorted_spans[i + 1].v.timestamp
                  < sorted_spans[i].v.timestamp + sorted_spans[i].v.duration_ms

\* {'timestamp': span.get('timestamp', 0) / 1000, 'duration_ms': span.get('duration', 0) / 1000}
SpanDict(span) ==
    [timestamp |-> Get(span.timestamp, 0), duration_ms |-> Get(span.duration, 0)]

\* list(span_lookup.values()) for span_lookup = {span['id']: span for span in trace}:
\* one entry per id, at the place of the id's first span, holding its last span
SpanLookupValues(trace) ==
    LET firsts == {i \in 1..Len(trace) : \A j \in 1..(i - 1) : trace[j].id # trace[i].id}
        LastOf(i) == CHOOSE j \in 1..Len(trace) :
                        /\ trace[j].id = trace[i].id
                        /\ \A l \in (j + 1)..Len(trace) : trace[l].id # trace[i].id
        nth(n) == CHOOSE i \in firsts : Cardinality({j \in firsts : j < i}) = n - 1
    IN  List([n \in 1..Cardinality(firsts) |-> trace[LastOf(nth(n))]])

\* the entries of a list at the indices K, in list order
Pick(values, K) ==
    [n \in 1..Cardinality(K) |->
        values[CHOOSE i \in K : Cardinality({j \in K : j < i}) = n - 1]]

RECURSIVE AggregateSpanRecursive(_, _, _)

\* Variant: when the children are concurrent the span's own value competes
\* with theirs instead of being added to their maximum.
AggregateSpanRecursive_MaxWithOwn(span, span_lookup, critical_patterns) ==
    LET IsChild(s) == s.parentId = span.id
        children == SelectSeq(span_lookup, IsChild)
        child_values == List([i \in 1..Len(children) |->
                            AggregateSpanRecursive(children[i], span_lookup, critical_patterns)])
        span_value == IF MatchesAny(span, critical_patterns)
                      THEN Get(span.duration, 0) ELSE 0
        critical == {i \in 1..Len(children) : child_values[i] > 0}
        critical_values == Pick(child_values, critical)
        child_span_dicts == [n \in 1..Cardinality(critical) |-> SpanDict(Pick(children, critical)[n])]
    IN  IF children = <<>> THEN span_value
        ELSE IF Cardinality(critical) <= 1 THEN span_value + SumSeq(child_values)
        ELSE IF CheckConcurrency(child_span_dicts)
             THEN Max2(span_value, MaxSeq(critical_values))
             ELSE span_value + SumSeq(critical_values)

\* Variant: every child takes part in the concurrency test, whatever its
\* value.
AggregateSpanRecursive_AllChildren(span, span_lookup, critical_patterns) ==
    LET IsChild(s) == s.parentId = span.id
        children == SelectSeq(span_lookup, IsChild)
        child_values == List([i \in 1..Len(children) |->
                            AggregateSpanRecursive(children[i], span_lookup, critical_patterns)])
        span_value == IF MatchesAny(span, critical_patterns)
                      THEN Get(span.duration, 0) ELSE 0
        child_span_dicts == [n \in 1..Len(children) |-> SpanDict(children[n])]
    IN  IF children = <<>> THEN span_value
        ELSE IF Len(children) <= 1 THEN span_value + SumSeq(child_values)
        ELSE IF CheckConcurrency(child_span_dicts)
             THEN span_value + MaxSeq(child_values)
             ELSE span_value + SumSeq(child_values)

\* TraceParser._aggregate_span_recursive
AggregateSpanRecursive(span, span_lookup, critical_patterns) ==
    LET IsChild(s) == s.parentId = span.id
        children == SelectSeq(span_lookup, IsChild)
        child_values == List([i \in 1..Len(children) |->
                            AggregateSpanRecursive(children[i], span_lookup, critical_patterns)])
        span_value == IF MatchesAny(span, critical_patterns)
                      THEN Get(span.duration, 0) ELSE 0
        critical == {i \in 1..Len(children) : child_values[i] > 0}
        critical_values == Pick(child_values, critical)
        child_span_dicts == [n \in 1..Cardinality(critical) |-> SpanDict(Pick(children, critical)[n])]
    IN  IF children = <<>> THEN span_value
        ELSE IF Cardinality(critical) <= 1 THEN span_value + SumSeq(child_values)
        ELSE IF CheckConcurrency(child_span_dicts)
             THEN span_value + MaxSeq(critical_values)
             ELSE span_value + SumSeq(critical_values)

\* Variant: only the first root is aggregated.
CalculateFinalCriticalIoRecursive_FirstRoot(trace, critical_patterns) ==
    LET span_lookup == SpanLookupValues(trace)
        IsRoot(span) == span.parentId = <<>>
        root_spans == SelectSeq(trace, IsRoot)
    IN  IF root_spans = <<>> THEN 0
        ELSE AggregateSpanRecursive(root_spans[1], span_lookup, critical_patterns)

\* TraceParser._calculate_final_critical_io_recursive
CalculateFinalCriticalIoRecursive(trace, critical_patterns) ==
    LET span_lookup == SpanLookupValues(trace)
        IsRoot(span) == span.parentId = <<>>
        root_spans == SelectSeq(trace, IsRoot)
        root_values == List([i \in 1..Len(root_spans) |->
                           AggregateSpanRecursive(root_spans[i], span_lookup, critical_patterns)])
        root_span_dicts == [i \in 1..Len(root_spans) |-> SpanDict(root_spans[i])]
    IN  IF root_spans = <<>> THEN 0
        ELSE IF Len(root_values) = 1 THEN root_values[1]
        ELSE IF CheckConcurrency(root_span_dicts) THEN MaxSeq(root_values)
        ELSE SumSeq(root_values)

\* 'no_<pattern>_spans' for a single pattern given as a string, otherwise
\* 'no_total_spans' for a one-element list and 'no_critical_spans' for others
NoSpansPattern(patterns) ==
    IF Len(patterns) = 1 THEN "no_total_spans" ELSE "no_critical_spans"

\* the record _get_critical_io_by_pattern appends for one trace
RecursiveRecord(trace, patterns) ==
    IF trace = <<>> THEN NoTraceRecord
    ELSE
      LET critical_spans == MatchingSpans(trace, patterns)
      IN  IF critical_spans = <<>>
          THEN [trace_id |-> FirstTraceId(trace), critical_io_ms |-> 0,
                spans_count |-> 0, execution_pattern |-> NoSpansPattern(patterns)]
          ELSE [trace_id |-> FirstTraceId(trace),
                critical_io_ms |-> CalculateFinalCriticalIoRecursive(trace, patterns),
                spans_count |-> Len(critical_spans),
                execution_pattern |-> "recursive_hierarchical"]

\* span['id'] of lines 587 and 620 raises KeyError for a span without 'id'
RecursiveRaises(trace, patterns) ==
    /\ MatchingSpans(trace, patterns) # <<>>
    /\ \E i \in 1..Len(trace) : trace[i].id = <<>>

\* TraceParser._get_critical_io_by_pattern, called with a list of patterns
GetCriticalIoByPattern(trs, patterns) ==
    IF \E i \in 1..Len(trs) : RecursiveRaises(trs[i], patterns)
    THEN [raised |-> "KeyError", value |-> <<>>]
    ELSE [raised |-> "none", value |-> [i \in 1..Len(trs) |-> RecursiveRecord(trs[i], patterns)]]

-----------------------------------------------------------------------------
(* Inputs of the loader *)

Span(id, parentId, name, timestamp, duration, traceId) ==
    [id |-> id, parentId |-> parentId, name |-> name, timestamp |-> timestamp,
     duration |-> duration, traceId |-> traceId]

BenchmarkName == "HTTP post /Benchmark/analyze"

LoadNames == {BenchmarkName, "gmail.list"}

LoadTraceIds == {None, Some("a"), Some("b")}

\* two instants, so that traces start together or one after the other
LoadTimestamps == {0, Tick}

LoadSpans ==
    {Span(Some("s"), None, Some(n), Some(t), Some(Tick), tid) :
        n \in LoadNames, t \in LoadTimestamps, tid \in LoadTraceIds}

\* a non-benchmark span recorded late, carrying the trace id tid
LeadSpan(tid) == Span(Some("r"), None, Some("Chat completion"), Some(Tick), Some(Tick), tid)

\* a trace of the loader's inputs: empty, or one span, or a benchmark span
\* that started at 0 listed behind a later non-benchmark span of the same trace
LoadTraceSet ==
    {<<>>} \cup {<<s>> : s \in LoadSpans}
        \cup {<<LeadSpan(s.traceId), s>> :
                s \in {x \in LoadSpans : x.name = Some(BenchmarkName) /\ x.timestamp = Some(0)}}

SeqsUpTo(S, n) == UNION {[1..m -> S] : m \in 0..n}

LoadFiles ==
    {MissingFile, GarbageFile, NoRawDataFile, BadRawDataFile}
        \cup {WrapperFile(trs) : trs \in SeqsUpTo(LoadTraceSet, MaxTraces)}

-----------------------------------------------------------------------------
(* __init__ *)

NoCall == [op |-> "none", patterns |-> <<>>, raised |-> "none", value |-> <<>>]

\* no sample list is held
NoSamples == durations = <<>>

\* no aggregation is running
NoWalk == stack = <<>> /\ visits = <<>>

\* load_all_commit_data is not running
NoBatch ==
    /\ benchmark_dirs = <<>>
    /\ new_dir = <<>>
    /\ dir_index = 0
    /\ commits_data = <<>>

InitLoad ==
    /\ pc = "new"
    /\ file \in LoadFiles
    /\ warmup_iterations \in (-1)..MaxWarmup
    /\ traces = <<>>
    /\ error = "none"
    /\ result = NoCall
    /\ calls = 0
    /\ NoSamples
    /\ NoWalk
    /\ NoBatch

\* self._load_traces()
LoadTraces ==
    /\ pc = "new"
    /\ LET r == LoadTracesDirect(file)
       IN  /\ pc' = IF r.raised = "none" THEN "loaded" ELSE "failed"
           /\ error' = r.raised
           /\ traces' = IF r.raised = "none" THEN r.value ELSE traces
    /\ UNCHANGED <<statsVars, batchVars, walkVars, file, warmup_iterations, result, calls>>

\* self._exclude_warmup_iterations()
ExcludeWarmup ==
    /\ pc = "loaded"
    /\ traces' = ExcludeWarmupIterations(traces, warmup_iterations)
    /\ pc' = "ready"
    /\ UNCHANGED <<statsVars, batchVars, walkVars, file, warmup_iterations, error, result, calls>>

NextLoad == LoadTraces \/ ExcludeWarmup

SpecLoad == InitLoad /\ [][NextLoad]_vars

-----------------------------------------------------------------------------
(* Metric calls *)

Call(op, patterns, outcome) ==
    [op |-> op, patterns |-> patterns, raised |-> outcome.raised, value |-> outcome.value]

\* get_gmail_api_critical_io()
GetGmailApiCriticalIo ==
    /\ pc = "ready"
    /\ calls < MaxCalls
    /\ calls' = calls + 1
    /\ result' = Call("union", <<"gmail">>, GetCriticalIoUnionIntervals(traces, <<"gmail">>))
    /\ UNCHANGED <<statsVars, batchVars, walkVars, pc, file, warmup_iterations, traces, error>>

\* get_ai_api_critical_io()
GetAiApiCriticalIo ==
    /\ pc = "ready"
    /\ calls < MaxCalls
    /\ calls' = calls + 1
    /\ result' = Call("union", <<"chat">>, GetCriticalIoUnionIntervals(traces, <<"chat">>))
    /\ UNCHANGED <<statsVars, batchVars, walkVars, pc, file, warmup_iterations, traces, error>>

\* Variant: the warm-up exclusion is run again before the metric is computed.
GetTotalCriticalIo_Refilter ==
    /\ pc = "ready"
    /\ calls < MaxCalls
    /\ calls' = calls + 1
    /\ traces' = ExcludeWarmupIterations(traces, warmup_iterations)
    /\ result' = Call("union", <<"gmail", "chat">>,
                      GetCriticalIoUnionIntervals(traces', <<"gmail", "chat">>))
    /\ UNCHANGED <<statsVars, batchVars, walkVars, pc, file, warmup_iterations, error>>

\* get_total_critical_io()
GetTotalCriticalIo ==
    /\ pc = "ready"
    /\ calls < MaxCalls
    /\ calls' = calls + 1
    /\ result' = Call("union", <<"gmail", "chat">>,
                      GetCriticalIoUnionIntervals(traces, <<"gmail", "chat">>))
    /\ UNCHANGED <<statsVars, batchVars, walkVars, pc, file, warmup_iterations, traces, error>>

\* the pattern lists the recursive aggregator is called with
RecursivePatternLists == {<<"gmail">>, <<"gmail", "chat">>, <<"Gmail">>}

\* Variant: the aggregator stores each root's aggregated value in the root
\* span, as its duration.
GetCriticalIoByPatternCall_Memo ==
    /\ pc = "ready"
    /\ calls < MaxCalls
    /\ calls' = calls + 1
    /\ \E patterns \in RecursivePatternLists :
          /\ result' = Call("recursive", patterns, GetCriticalIoByPattern(traces, patterns))
          /\ traces' =
                [t \in 1..Len(traces) |->
                    [i \in 1..Len(traces[t]) |->
                        IF traces[t][i].parentId = <<>>
                        THEN [traces[t][i] EXCEPT
                                 !.duration = <<CalculateFinalCriticalIoRecursive(traces[t], patterns)>>]
                        ELSE traces[t][i]]]
    /\ UNCHANGED <<statsVars, batchVars, walkVars, pc, file, warmup_iterations, error>>

\* _get_critical_io_by_pattern(patterns)
GetCriticalIoByPatternCall ==
    /\ pc = "ready"
    /\ calls < MaxCalls
    /\ calls' = calls + 1
    /\ \E patterns \in RecursivePatternLists :
          result' = Call("recursive", patterns, GetCriticalIoByPattern(traces, patterns))
    /\ UNCHANGED <<statsVars, batchVars, walkVars, pc, file, warmup_iterations, traces, error>>

\* the state in which __init__(path, 0) returns for a file serializing trs
Constructed(trs) ==
    /\ pc = "ready"
    /\ file = WrapperFile(trs)
    /\ warmup_iterations = 0
    /\ traces = ExcludeWarmupIterations(LoadTracesDirect(file).value, warmup_iterations)
    /\ error = "none"
    /\ result = NoCall
    /\ calls = 0
    /\ NoSamples
    /\ NoWalk
    /\ NoBatch

-----------------------------------------------------------------------------
(* The interval-union calculator on one trace of up to MaxSpans spans *)

\* the spans of a trace, given ids by position: 1, 2, ...
WithIds(shapes) == [i \in 1..Len(shapes) |-> [shapes[i] EXCEPT !.id = <<i>>]]

IoNames == {"Gmail.get", "chat gpt"}

UnionSpanShapes ==
    {Span(None, None, Some(n), Some(t * Tick), Some(d * Tick), Some("a")) :
        n \in IoNames, t \in 0..MaxStartTick, d \in 0..MaxDurTick}
        \cup {Span(None, None, Some("db.query"), Some(0), Some(Tick), Some("a"))}

UnionTraceSet == {WithIds(shapes) : shapes \in SeqsUpTo(UnionSpanShapes, MaxSpans)}

InitUnion == \E t \in UnionTraceSet : Constructed(<<t>>)

NextUnion == GetGmailApiCriticalIo \/ GetAiApiCriticalIo \/ GetTotalCriticalIo

SpecUnion == InitUnion /\ [][NextUnion]_vars

-----------------------------------------------------------------------------
(* The recursive aggregator on a root with up to MaxChildren descendants,  *)
(* all children of the root or each the child of the one before it         *)

RootShapes ==
    {Span(None, None, Some(n), Some(0), Some(Tick), Some("a")) : n \in {"handler", "Gmail.batch"}}

RecDurTicks == {0, 2, 3}

\* descendants start with the root or three ticks later
RecStartTicks == {0, 3}

DescendantShapes ==
    {Span(None, None, Some(n), Some(t * Tick), Some(d * Tick), Some("a")) :
        n \in IoNames, t \in RecStartTicks, d \in RecDurTicks}

\* "siblings": every descendant is a child of the root (id 1);
\* "chain": each descendant is the child of the span listed before it
Linked(spans, layout) ==
    [i \in 1..Len(spans) |->
        IF i = 1 THEN spans[i]
        ELSE [spans[i] EXCEPT !.parentId = IF layout = "chain" THEN <<i - 1>> ELSE <<1>>]]

RecTraceSet ==
    {Linked(WithIds(<<r>> \o ds), layout) :
        r \in RootShapes, ds \in SeqsUpTo(DescendantShapes, MaxChildren),
        layout \in {"siblings", "chain"}}

InitRec == \E t \in RecTraceSet : Constructed(<<t>>)

NextRec == GetCriticalIoByPatternCall

SpecRec == InitRec /\ [][NextRec]_vars

-----------------------------------------------------------------------------
(* Properties of the loader (SpecLoad) *)

\* the trace list serialized in the file
Parsed == file.payload

\* indices of the qualifying (benchmark) traces of a list
QualifyingIdx(trs) == {i \in 1..Len(trs) : IsBenchmarkTrace(trs[i])}

\* the elements of trs at the indices K, in list order
AtIndices(trs, K) ==
    [n \in 1..Cardinality(K) |->
        trs[CHOOSE i \in K : Cardinality({j \in K : j < i}) = n - 1]]

\* qualifying trace j comes before qualifying trace i in warm-up order:
\* smaller minimum start timestamp, ties resolved by list order
StartsBefore(trs, j, i) ==
    LET kj == MinTimestampKey(trs[j])
        ki == MinTimestampKey(trs[i])
    IN  \/ ~KeyLeq(ki, kj)
        \/ (kj = ki /\ j < i)

\* the w qualifying traces with the smallest minimum start timestamp
EarliestQualifyingIdx(trs, w) ==
    {i \in QualifyingIdx(trs) :
        Cardinality({j \in QualifyingIdx(trs) : StartsBefore(trs, j, i)}) < w}

\* the non-empty traces carry pairwise distinct trace identifiers
DistinctTraceIds(trs) ==
    \A i, j \in 1..Len(trs) :
        (i < j /\ trs[i] # <<>> /\ trs[j] # <<>>)
            => FirstTraceId(trs[i]) # FirstTraceId(trs[j])

IsQualifying(trace) == IsBenchmarkTrace(trace)

IsNotQualifying(trace) == ~IsBenchmarkTrace(trace)

C5_Pre ==
    /\ pc = "ready"
    /\ 0 < warmup_iterations
    /\ warmup_iterations < Cardinality(QualifyingIdx(Parsed))
    /\ DistinctTraceIds(Parsed)

\* C5: with 0 < warmupCount < N and pairwise distinct trace identifiers,
\* construction removes exactly the warmupCount qualifying traces with the
\* smallest minimum start timestamp (ties by list order); every other trace
\* remains, in its original relative order.
C5_ExactlyEarliestRemoved ==
    C5_Pre =>
        traces = AtIndices(Parsed, (1..Len(Parsed)) \ EarliestQualifyingIdx(Parsed, warmup_iterations))

\* C5 witness: one of two qualifying traces was removed, and it was not the
\* one listed first (the later-listed trace started earlier); a
\* non-qualifying trace stayed.
C5_Witness ==
    /\ C5_Pre
    /\ warmup_iterations = 1
    /\ Len(Parsed) = 3
    /\ Cardinality(QualifyingIdx(Parsed)) = 2
    /\ Len(traces) = 2
    /\ traces[1] = Parsed[1]
    /\ IsQualifying(Parsed[1])

\* C6 (as claimed): after construction every non-qualifying trace of the
\* file is still in the list, whatever its timestamps and trace identifier.
C6_NonQualifyingNeverRemoved ==
    pc = "ready" => SelectSeq(traces, IsNotQualifying) = SelectSeq(Parsed, IsNotQualifying)

C7_Pre ==
    /\ pc = "ready"
    /\ \/ warmup_iterations <= 0
       \/ warmup_iterations > Cardinality(QualifyingIdx(Parsed))

\* C7: when warmupCount is 0 or negative, or exceeds the number of
\* qualifying traces, construction succeeds and the trace list is exactly
\* the parsed list.
C7_AllOrNothing == C7_Pre => (traces = Parsed /\ error = "none")

\* C7 witness: more warm-up iterations requested than the (non-zero) number
\* of qualifying traces, construction finished.
C7_Witness ==
    /\ C7_Pre
    /\ Cardinality(QualifyingIdx(Parsed)) = 2
    /\ warmup_iterations = 3
    /\ Len(traces) = 3

C8_Pre ==
    /\ pc = "ready"
    /\ warmup_iterations > 0
    /\ warmup_iterations = Cardinality(QualifyingIdx(Parsed))

\* C8 (as claimed): when warmupCount = N > 0 exclusion is applied and all N
\* qualifying traces are removed.
C8_AppliedAtEquality == C8_Pre => QualifyingIdx(traces) = {}

\* C8 (amended): when warmupCount = N > 0 exclusion is skipped, as it is
\* when warmupCount > N: the trace list is exactly the parsed list.
C8_SkippedAtEquality == C8_Pre => traces = Parsed

\* C8 witness: as many warm-up iterations as qualifying traces, among
\* other traces.
C8_Witness ==
    /\ C8_Pre
    /\ warmup_iterations = 2
    /\ Len(Parsed) = 3
    /\ traces = Parsed

\* the cases in which the claim expects a data-format error
C9_FileMissing == file.kind = "missing"

C9_NotJson == file.kind = "garbage"

C9_NoRawData == file.kind = "object" /\ ~file.hasRaw

C9_RawDataUnparseable == file.kind = "object" /\ file.hasRaw /\ ~file.rawJson

C9_Failed == pc = "failed" /\ error = "ValueError" /\ traces = <<>>

\* C9 (as claimed): loading fails with ValueError in each of the four
\* cases (missing file, invalid JSON, no 'rawData', unparseable payload)
\* and succeeds only when none of them holds.
C9_FailsInAllFourCases ==
    pc # "new" =>
        (C9_Failed <=> (C9_FileMissing \/ C9_NotJson \/ C9_NoRawData \/ C9_RawDataUnparseable))

\* C9 (amended): loading fails with ValueError, leaving no trace list, when
\* the file is missing, is not valid JSON, or holds a 'rawData' that is
\* not valid JSON; a wrapper without 'rawData' loads as the empty trace
\* list, and a wrapper whose 'rawData' serializes a trace list loads as
\* that list.
C9_FailsUnlessDefaulted ==
    /\ pc # "new" =>
          (C9_Failed <=> (C9_FileMissing \/ C9_NotJson \/ C9_RawDataUnparseable))
    /\ pc = "loaded" => (error = "none" /\ traces = Parsed)
    /\ (pc = "loaded" /\ C9_NoRawData) => traces = <<>>

\* C9 witness: a wrapper whose 'rawData' is not valid JSON made the
\* constructor raise.
C9_Witness == C9_Failed /\ C9_RawDataUnparseable

-----------------------------------------------------------------------------
(* Properties of the interval-union calculator (SpecUnion) *)

\* the intervals <<start, end>> of the spans of a trace that match the patterns
MatchingIntervalSet(trace, patterns) ==
    {<<Get(trace[i].timestamp, 0), Get(trace[i].timestamp, 0) + Get(trace[i].duration, 0)>> :
        i \in {j \in 1..Len(trace) : MatchesAny(trace[j], patterns)}}

\* the instant x lies in one of the half-open intervals of I
CoveredBy(I, x) == \E p \in I : p[1] <= x /\ x < p[2]

RECURSIVE CoveredLength(_, _)
\* the total length of the covered stretches between consecutive points of P
CoveredLength(I, P) ==
    IF P = {} THEN 0
    ELSE LET x == MinSet(P)
             rest == P \ {x}
         IN  (IF rest # {} /\ CoveredBy(I, x) THEN MinSet(rest) - x ELSE 0)
                + CoveredLength(I, rest)

\* the length of the set-union of the half-open intervals of I
UnionLength(I) == CoveredLength(I, {p[1] : p \in I} \cup {p[2] : p \in I})

MatchingIdx(trace, patterns) == {j \in 1..Len(trace) : MatchesAny(trace[j], patterns)}

RECURSIVE SumOfDurations(_, _)
SumOfDurations(trace, K) ==
    IF K = {} THEN 0
    ELSE LET j == CHOOSE k \in K : TRUE
         IN  Get(trace[j].duration, 0) + SumOfDurations(trace, K \ {j})

UnionCalled == result.op = "union" /\ result.raised = "none"

\* C1: for every non-empty trace the critical_io_ms of the interval-union
\* calculator is the length of the set-union of the intervals
\* [timestamp, timestamp + duration) of the matching spans.
C1_UnionLength ==
    UnionCalled =>
        \A t \in 1..Len(traces) :
            traces[t] # <<>> =>
                result.value[t].critical_io_ms
                    = UnionLength(MatchingIntervalSet(traces[t], result.patterns))

\* C1 witness: two matching spans [a,b) and [c,d) with a <= c < b and both
\* of positive length; the calculator counted max(b,d) - a, less than
\* (b-a) + (d-c).
C1_Witness ==
    /\ UnionCalled
    /\ Len(traces[1]) = 2
    /\ MatchingIdx(traces[1], result.patterns) = {1, 2}
    /\ \E i, j \in {1, 2} :
          LET a == traces[1][i].timestamp[1]
              b == a + traces[1][i].duration[1]
              c == traces[1][j].timestamp[1]
              d == c + traces[1][j].duration[1]
          IN  /\ i # j /\ a < c /\ c < b /\ b < d
              /\ result.value[1].critical_io_ms = d - a
              /\ result.value[1].critical_io_ms < (b - a) + (d - c)

\* every two matching spans are apart: the later one starts strictly after
\* the earlier one ends
PairwiseApart(trace, K) ==
    \A i, j \in K :
        i # j =>
            LET si == Get(trace[i].timestamp, 0)
                ei == si + Get(trace[i].duration, 0)
                sj == Get(trace[j].timestamp, 0)
                ej == sj + Get(trace[j].duration, 0)
            IN  sj > ei \/ si > ej

\* C2: when the matching spans are pairwise non-overlapping, _merge_intervals
\* returns one interval per matching span and critical_io_ms is the plain
\* sum of their durations.
C2_NoMergeWhenApart ==
    UnionCalled =>
        \A t \in 1..Len(traces) :
            LET K == MatchingIdx(traces[t], result.patterns)
            IN  (traces[t] # <<>> /\ PairwiseApart(traces[t], K)) =>
                   /\ Len(MergeIntervals(SortedIntervals(MatchingSpans(traces[t], result.patterns))))
                         = Cardinality(K)
                   /\ result.value[t].critical_io_ms = SumOfDurations(traces[t], K)

\* C2 witness: two matching spans of positive length, the one listed first
\* starting after the other has ended; the result is the sum of the two.
C2_Witness ==
    /\ UnionCalled
    /\ Len(traces[1]) = 2
    /\ MatchingIdx(traces[1], result.patterns) = {1, 2}
    /\ PairwiseApart(traces[1], {1, 2})
    /\ traces[1][1].duration[1] > 0
    /\ traces[1][2].duration[1] > 0
    /\ traces[1][1].timestamp[1] > traces[1][2].timestamp[1]
    /\ result.value[1].critical_io_ms = traces[1][1].duration[1] + traces[1][2].duration[1]

\* C10: a trace with no matching span yields critical_io_ms 0, spans_count 0
\* and a no-data marker ('no_trace' for a trace without spans, otherwise
\* 'no_io_spans'); a trace with a matching span yields 'union_intervals'
\* with spans_count >= 1, whatever its merged duration.
C10_NoDataMarked ==
    UnionCalled =>
        \A t \in 1..Len(traces) :
            LET r == result.value[t]
                m == Cardinality(MatchingIdx(traces[t], result.patterns))
            IN  /\ m = 0 =>
                      /\ r.critical_io_ms = 0
                      /\ r.spans_count = 0
                      /\ r.execution_pattern =
                            (IF traces[t] = <<>> THEN "no_trace" ELSE "no_io_spans")
                /\ m >= 1 =>
                      /\ r.execution_pattern = "union_intervals"
                      /\ r.spans_count = m

\* C10 witness: a measured zero: the only matching span has duration 0, next
\* to a span that does not match.
C10_Witness ==
    /\ UnionCalled
    /\ Len(traces[1]) = 2
    /\ Cardinality(MatchingIdx(traces[1], result.patterns)) = 1
    /\ result.value[1].critical_io_ms = 0
    /\ result.value[1].spans_count = 1
    /\ result.value[1].execution_pattern = "union_intervals"

\* the critical_io_ms the interval-union calculator reports for one trace
UnionMs(trace, patterns) == UnionRecord(trace, patterns).critical_io_ms

\* the pattern lists compared: none, the two I/O prefixes alone and
\* together, and one enlarged by a prefix of other spans
ComparedPatternLists ==
    <<<<>>, <<"gmail">>, <<"chat">>, <<"gmail", "chat">>, <<"db", "gmail">>>>

\* C26: for a non-empty trace with non-negative durations the total
\* critical I/O is at least the larger of the Gmail-only and AI-only
\* critical I/O and at most their sum; enlarging the pattern list never
\* decreases the critical I/O; and each critical I/O lies between the
\* longest matching span's duration and the sum of the matching durations.
C26_MetricsConsistent ==
    UnionCalled =>
        \A t \in 1..Len(traces) :
            traces[t] # <<>> =>
                LET trace == traces[t]
                    ms == List([p \in 1..Len(ComparedPatternLists) |->
                                   UnionMs(trace, ComparedPatternLists[p])])
                    gmail == ms[2]
                    ai == ms[3]
                    total == ms[4]
                    own == result.value[t].critical_io_ms
                    K == MatchingIdx(trace, result.patterns)
                IN  /\ \E p \in 2..4 :
                          result.patterns = ComparedPatternLists[p] /\ own = ms[p]
                    /\ total >= Max2(gmail, ai)
                    /\ total <= gmail + ai
                    /\ \A p, q \in 1..Len(ComparedPatternLists) :
                          Range(ComparedPatternLists[p]) \subseteq Range(ComparedPatternLists[q])
                              => ms[p] <= ms[q]
                    /\ \A j \in K : own >= Get(trace[j].duration, 0)
                    /\ own <= SumOfDurations(trace, K)

\* C26 witness: a Gmail span and an AI span that overlap in part; the total
\* has been computed and lies strictly between the larger of the two and
\* their sum.
C26_Witness ==
    /\ UnionCalled
    /\ result.patterns = <<"gmail", "chat">>
    /\ Len(traces[1]) = 2
    /\ LET gmail == UnionMs(traces[1], <<"gmail">>)
           ai == UnionMs(traces[1], <<"chat">>)
       IN  /\ gmail > 0 /\ ai > 0
           /\ result.value[1].critical_io_ms > Max2(gmail, ai)
           /\ result.value[1].critical_io_ms < gmail + ai

-----------------------------------------------------------------------------
(* Properties of the recursive aggregator (SpecRec) *)

RecursiveCalled == result.op = "recursive" /\ result.raised = "none"

\* a single root that does not match, and two matching children of it
C3_Shape(trace, patterns) ==
    /\ Len(trace) = 3
    /\ trace[1].parentId = <<>>
    /\ ~MatchesAny(trace[1], patterns)
    /\ \A i \in {2, 3} : trace[i].parentId = trace[1].id /\ MatchesAny(trace[i], patterns)

\* the later-starting child starts strictly before the earlier-starting one ends
C3_Overlap(trace) ==
    \E e, l \in {2, 3} :
        /\ e # l
        /\ trace[e].timestamp[1] <= trace[l].timestamp[1]
        /\ trace[l].timestamp[1] < trace[e].timestamp[1] + trace[e].duration[1]

\* C3: for a non-matching root with two matching leaf children of durations
\* d1 and d2 the aggregator returns max(d1, d2) when the later-starting child
\* starts strictly before the earlier one ends, and d1 + d2 otherwise, also
\* when it starts exactly at the earlier one's end.
C3_TwoChildren ==
    (RecursiveCalled /\ C3_Shape(traces[1], result.patterns)) =>
        LET d1 == traces[1][2].duration[1]
            d2 == traces[1][3].duration[1]
        IN  /\ result.value[1].critical_io_ms
                  = (IF C3_Overlap(traces[1]) THEN Max2(d1, d2) ELSE d1 + d2)
            /\ CalculateFinalCriticalIoRecursive(traces[1], result.patterns)
                  = result.value[1].critical_io_ms

\* C3 witness: children of 150 ms and 100 ms, the second starting exactly
\* when the first ends: 250 ms.
C3_Witness ==
    /\ RecursiveCalled
    /\ C3_Shape(traces[1], result.patterns)
    /\ traces[1][2].duration[1] = 150000
    /\ traces[1][3].duration[1] = 100000
    /\ traces[1][3].timestamp[1] = traces[1][2].timestamp[1] + 150000
    /\ result.value[1].critical_io_ms = 250000

SelectedIgnoringCase(trace, patterns) ==
    {i \in 1..Len(trace) :
        \E p \in 1..Len(patterns) :
            StartsWith(Lower(Get(trace[i].name, "")), Lower(patterns[p]))}

\* C18: patterns are matched without regard to case on both sides: the
\* aggregator counts exactly the spans whose lower-cased name starts with a
\* lower-cased pattern, so 'Gmail' selects what 'gmail' selects.
C18_CaseInsensitiveBothSides ==
    RecursiveCalled =>
        result.value[1].spans_count
            = Cardinality(SelectedIgnoringCase(traces[1], result.patterns))

RECURSIVE SumOver(_, _)
\* the sum of f over the set S
SumOver(f, S) ==
    IF S = {} THEN 0
    ELSE LET x == CHOOSE y \in S : TRUE
         IN  f[x] + SumOver(f, S \ {x})

RECURSIVE ValueOf(_, _, _)
\* value(span) of the span at position i of a trace with unique ids that
\* form a forest
ValueOf(trace, i, patterns) ==
    LET own == IF \E p \in 1..Len(patterns) :
                     StartsWith(Lower(Get(trace[i].name, "")), patterns[p])
               THEN Get(trace[i].duration, 0) ELSE 0
        kids == {j \in 1..Len(trace) : trace[j].parentId = trace[i].id}
        val == [j \in kids |-> ValueOf(trace, j, patterns)]
        nonzero == {j \in kids : val[j] # 0}
        start(j) == Get(trace[j].timestamp, 0)
        Before(a, b) == start(a) < start(b) \/ (start(a) = start(b) /\ a < b)
        concurrent ==
            \E a, b \in nonzero :
                /\ Before(a, b)
                /\ ~\E c \in nonzero : Before(a, c) /\ Before(c, b)
                /\ start(b) < start(a) + Get(trace[a].duration, 0)
    IN  IF Cardinality(nonzero) < 2 THEN own + SumOver(val, kids)
        ELSE IF concurrent
             THEN own + (CHOOSE m \in {val[j] : j \in nonzero} :
                            \A j \in nonzero : val[j] <= m)
             ELSE own + SumOver(val, nonzero)

-----------------------------------------------------------------------------
(* Numbers of the statistics engine (scripts/trace_statistics.py).         *)
(* Samples are integers.  Every quotient the code forms is held exactly,   *)
(* as a fraction in lowest terms with a positive denominator; a square     *)
(* root is held as sign * sqrt(square) with an exact fraction under the    *)
(* root, so that comparisons with the thresholds are exact.  Floating-     *)
(* point rounding is not modelled.                                         *)

Abs(x) == IF x < 0 THEN -x ELSE x

RECURSIVE GCD(_, _)
GCD(a, b) == IF b = 0 THEN a ELSE GCD(b, a % b)

\* the fraction n / d, d # 0
Rat(n, d) ==
    LET g == GCD(Abs(n), Abs(d))
        s == IF d < 0 THEN -1 ELSE 1
    IN  [num |-> (s * n) \div g, den |-> (s * d) \div g]

RatOf(i) == [num |-> i, den |-> 1]

RatAdd(a, b) == Rat(a.num * b.den + b.num * a.den, a.den * b.den)

RatSub(a, b) == Rat(a.num * b.den - b.num * a.den, a.den * b.den)

RatMul(a, b) == Rat(a.num * b.num, a.den * b.den)

\* a / b, b # 0
RatDiv(a, b) == Rat(a.num * b.den, a.den * b.num)

RatLt(a, b) == a.num * b.den < b.num * a.den

\* int(x) of a non-negative fraction
RatInt(a) == a.num \div a.den

\* float.is_integer()
RatIsInteger(a) == a.den = 1

Sign(x) == IF x < 0 THEN -1 ELSE IF x = 0 THEN 0 ELSE 1

\* the real number sign * sqrt(square)
Surd(sign, square) ==
    IF sign = 0 \/ square.num = 0 THEN [sign |-> 0, square |-> RatOf(0)]
    ELSE [sign |-> sign, square |-> square]

\* math.sqrt of a non-negative fraction
Sqrt(q) == Surd(1, q)

\* (x / m) * k for a root x, a fraction m # 0 and an integer k > 0
SurdDivMul(x, m, k) ==
    Surd(x.sign * Sign(m.num), RatMul(RatDiv(x.square, RatMul(m, m)), RatOf(k * k)))

\* x < k for a root x and an integer k > 0
SurdLt(x, k) == x.sign <= 0 \/ RatLt(x.square, RatOf(k * k))

\* sorted(values)
Sorted(vs) ==
    LET sorted == StableSort([i \in 1..Len(vs) |-> [k |-> <<vs[i]>>, v |-> vs[i]]])
    IN  List([i \in 1..Len(vs) |-> sorted[i].v])

\* min(values)
MinSeq(s) == CHOOSE m \in Range(s) : \A x \in Range(s) : m <= x

-----------------------------------------------------------------------------
(* TraceStatistics *)

\* statistics.mean
Mean(vs) == Rat(SumSeq(vs), Len(vs))

\* statistics.median
Median(vs) ==
    LET data == Sorted(vs)
        n == Len(vs)
    IN  IF n % 2 = 1 THEN RatOf(data[n \div 2 + 1])
        ELSE Rat(data[n \div 2] + data[n \div 2 + 1], 2)

RECURSIVE SumSquaredDeviations(_, _)
\* sum((x - c) ** 2 for x in values)
SumSquaredDeviations(vs, c) ==
    IF vs = <<>> THEN RatOf(0)
    ELSE LET d == RatSub(RatOf(vs[1]), c)
         IN  RatAdd(RatMul(d, d), SumSquaredDeviations(Tail(vs), c))

\* Variant: the population variance, dividing by n.
Variance_Population(vs) == RatDiv(SumSquaredDeviations(vs, Mean(vs)), RatOf(Len(vs)))

\* statistics.variance of two or more samples
Variance(vs) == RatDiv(SumSquaredDeviations(vs, Mean(vs)), RatOf(Len(vs) - 1))

\* statistics.stdev of two or more samples
Stdev(vs) == Sqrt(Variance(vs))

\* calculate_basic_stats(values)
CalculateBasicStats(vs) ==
    IF vs = <<>>
    THEN [count |-> 0, mean |-> RatOf(0), median |-> RatOf(0), min |-> 0, max |-> 0,
          range |-> 0, std_dev |-> Sqrt(RatOf(0)), variance |-> RatOf(0)]
    ELSE [count |-> Len(vs),
          mean |-> Mean(vs),
          median |-> Median(vs),
          min |-> MinSeq(vs),
          max |-> MaxSeq(vs),
          range |-> MaxSeq(vs) - MinSeq(vs),
          std_dev |-> IF Len(vs) > 1 THEN Stdev(vs) ELSE Sqrt(RatOf(0)),
          variance |-> IF Len(vs) > 1 THEN Variance(vs) ELSE RatOf(0)]

\* the percentiles requested when none are given
DefaultPercentiles == <<50, 90, 95, 99>>

\* the body of the loop of calculate_percentiles (lists are 1-based here)
Percentile(sorted_values, p) ==
    LET index == Rat(p * (Len(sorted_values) - 1), 100)
    IN  IF RatIsInteger(index) THEN RatOf(sorted_values[RatInt(index) + 1])
        ELSE LET lower == sorted_values[RatInt(index) + 1]
                 upper == sorted_values[RatInt(index) + 2]
             IN  RatAdd(RatOf(lower),
                        RatMul(RatOf(upper - lower), RatSub(index, RatOf(RatInt(index)))))

\* Variant: the samples are used in the order given, without sorting.
CalculatePercentiles_Unsorted(vs, percentiles) ==
    LET ps == IF percentiles = None THEN DefaultPercentiles ELSE percentiles[1]
    IN  IF vs = <<>> THEN [p \in Range(ps) |-> RatOf(0)]
        ELSE [p \in Range(ps) |-> Percentile(vs, p)]

\* calculate_percentiles(values, percentiles): the dict, keyed by p for 'p<p>'
CalculatePercentiles(vs, percentiles) ==
    LET ps == IF percentiles = None THEN DefaultPercentiles ELSE percentiles[1]
    IN  IF vs = <<>> THEN [p \in Range(ps) |-> RatOf(0)]
        ELSE LET sorted_values == Sorted(vs)
             IN  [p \in Range(ps) |-> Percentile(sorted_values, p)]

\* Variant: the guard on a zero mean is missing; dividing by zero raises.
CalculateCoefficientOfVariation_NoGuard(vs) ==
    IF vs = <<>> THEN [raised |-> "none", value |-> Sqrt(RatOf(0))]
    ELSE IF Mean(vs).num = 0 THEN [raised |-> "ZeroDivisionError", value |-> <<>>]
    ELSE [raised |-> "none",
          value |-> SurdDivMul(IF Len(vs) > 1 THEN Stdev(vs) ELSE Sqrt(RatOf(0)), Mean(vs), 100)]

\* calculate_coefficient_of_variation(values)
CalculateCoefficientOfVariation(vs) ==
    IF vs = <<>> THEN [raised |-> "none", value |-> Sqrt(RatOf(0))]
    ELSE IF Mean(vs).num = 0 THEN [raised |-> "none", value |-> Sqrt(RatOf(0))]
    ELSE [raised |-> "none",
          value |-> SurdDivMul(IF Len(vs) > 1 THEN Stdev(vs) ELSE Sqrt(RatOf(0)), Mean(vs), 100)]

\* Variant: the boundary values fall in the lower band.
Stability_Closed(cv) ==
    IF SurdLt(cv, 10) \/ cv = Sqrt(RatOf(100)) THEN "excellent"
    ELSE IF SurdLt(cv, 20) \/ cv = Sqrt(RatOf(400)) THEN "good"
    ELSE IF SurdLt(cv, 30) \/ cv = Sqrt(RatOf(900)) THEN "fair"
    ELSE "poor"

\* analyze_performance_stability: the categorisation of cv
Stability(cv) ==
    IF SurdLt(cv, 10) THEN "excellent"
    ELSE IF SurdLt(cv, 20) THEN "good"
    ELSE IF SurdLt(cv, 30) THEN "fair"
    ELSE "poor"

\* TraceReporter._get_stability_rating(cv)
GetStabilityRating(cv) ==
    IF SurdLt(cv, 10) THEN "Excellent"
    ELSE IF SurdLt(cv, 20) THEN "Good"
    ELSE IF SurdLt(cv, 30) THEN "Fair"
    ELSE "Poor"

\* statistics.quantiles(data, n=4)[i - 1]: the default, 'exclusive' method
\* on len(data) >= 2 samples
Quantiles4(vs, i) ==
    LET data == Sorted(vs)
        ld == Len(vs)
        m == ld + 1
        j0 == (i * m) \div 4
        j == IF j0 < 1 THEN 1 ELSE IF j0 > ld - 1 THEN ld - 1 ELSE j0
        delta == i * m - j * 4
    IN  Rat(data[j] * (4 - delta) + data[j + 1] * delta, 4)

\* Variant: with fewer than 4 samples both quartiles are the median.
Outliers_MedianBelowFour(vs) ==
    LET q1 == IF Len(vs) >= 4 THEN Quantiles4(vs, 1) ELSE Median(vs)
        q3 == IF Len(vs) >= 4 THEN Quantiles4(vs, 3) ELSE Median(vs)
        iqr == RatSub(q3, q1)
        lower_bound == RatSub(q1, RatMul(Rat(3, 2), iqr))
        upper_bound == RatAdd(q3, RatMul(Rat(3, 2), iqr))
        K == {i \in 1..Len(vs) :
                RatLt(RatOf(vs[i]), lower_bound) \/ RatLt(upper_bound, RatOf(vs[i]))}
        outliers == List(Pick(vs, K))
    IN  [count |-> Len(outliers),
         values |-> outliers,
         percentage |-> Rat(Len(outliers) * 100, Len(vs))]

\* analyze_performance_stability: the outliers
Outliers(vs) ==
    LET q1 == IF Len(vs) >= 4 THEN Quantiles4(vs, 1) ELSE RatOf(MinSeq(vs))
        q3 == IF Len(vs) >= 4 THEN Quantiles4(vs, 3) ELSE RatOf(MaxSeq(vs))
        iqr == RatSub(q3, q1)
        lower_bound == RatSub(q1, RatMul(Rat(3, 2), iqr))
        upper_bound == RatAdd(q3, RatMul(Rat(3, 2), iqr))
        K == {i \in 1..Len(vs) :
                RatLt(RatOf(vs[i]), lower_bound) \/ RatLt(upper_bound, RatOf(vs[i]))}
        outliers == List(Pick(vs, K))
    IN  [count |-> Len(outliers),
         values |-> outliers,
         percentage |-> Rat(Len(outliers) * 100, Len(vs))]

\* analyze_performance_stability(durations)
AnalyzePerformanceStability(vs) ==
    IF vs = <<>> THEN [stability |-> "unknown", reason |-> "no data"]
    ELSE LET cv == CalculateCoefficientOfVariation(vs).value
         IN  [stability |-> Stability(cv),
              coefficient_of_variation |-> cv,
              outliers |-> Outliers(vs),
              stats |-> CalculateBasicStats(vs)]

-----------------------------------------------------------------------------
(* Calls of the statistics engine on one sample list *)

\* sample values: a negative one, zero, and well-separated positive ones
SampleValues == {-10, 0, 10, 40}

\* longest sample list over SampleValues
MaxSamples == 4

\* sample lists with a coefficient of variation of exactly 10, 20 and 30,
\* and the list 10, 20, 30, 40
NamedSamples == {<<9, 10, 11>>, <<8, 10, 12>>, <<13, 7, 10>>, <<40, 10, 30, 20>>}

SampleLists == SeqsUpTo(SampleValues, MaxSamples) \cup NamedSamples

\* the percentiles argument: absent, or a list
PercentileArgs == {None, Some(<<50>>), Some(<<0, 100>>), Some(<<25, 75>>)}

\* no parser takes part
NoParser ==
    /\ pc = "none"
    /\ file = MissingFile
    /\ warmup_iterations = 0
    /\ traces = <<>>
    /\ error = "none"

InitStats ==
    /\ NoParser
    /\ NoWalk
    /\ NoBatch
    /\ durations \in SampleLists
    /\ result = NoCall
    /\ calls = 0

StatsCall(op, arg, raised, value) ==
    [op |-> op, patterns |-> arg, raised |-> raised, value |-> value]

\* TraceStatistics.calculate_basic_stats(durations)
CalculateBasicStatsCall ==
    /\ calls < MaxCalls
    /\ calls' = calls + 1
    /\ result' = StatsCall("basic_stats", None, "none", CalculateBasicStats(durations))
    /\ UNCHANGED <<parserVars, statsVars, batchVars, walkVars>>

\* TraceStatistics.calculate_percentiles(durations, percentiles)
CalculatePercentilesCall ==
    /\ calls < MaxCalls
    /\ calls' = calls + 1
    /\ \E ps \in PercentileArgs :
          result' = StatsCall("percentiles", ps, "none", CalculatePercentiles(durations, ps))
    /\ UNCHANGED <<parserVars, statsVars, batchVars, walkVars>>

\* TraceStatistics.calculate_coefficient_of_variation(durations)
CalculateCoefficientOfVariationCall ==
    /\ calls < MaxCalls
    /\ calls' = calls + 1
    /\ LET r == CalculateCoefficientOfVariation(durations)
       IN  result' = StatsCall("cv", None, r.raised, r.value)
    /\ UNCHANGED <<parserVars, statsVars, batchVars, walkVars>>

\* TraceStatistics.analyze_performance_stability(durations)
AnalyzePerformanceStabilityCall ==
    /\ calls < MaxCalls
    /\ calls' = calls + 1
    /\ result' = StatsCall("stability", None, "none", AnalyzePerformanceStability(durations))
    /\ UNCHANGED <<parserVars, statsVars, batchVars, walkVars>>

\* TraceReporter.generate_markdown_report: the Performance Stability line,
\* written when there are benchmark requests
GetStabilityRatingCall ==
    /\ calls < MaxCalls
    /\ durations # <<>>
    /\ calls' = calls + 1
    /\ LET cv == CalculateCoefficientOfVariation(durations).value
       IN  result' = StatsCall("rating", None, "none",
                               [cv |-> cv, rating |-> GetStabilityRating(cv)])
    /\ UNCHANGED <<parserVars, statsVars, batchVars, walkVars>>

NextStats ==
    \/ CalculateBasicStatsCall
    \/ CalculatePercentilesCall
    \/ CalculateCoefficientOfVariationCall
    \/ AnalyzePerformanceStabilityCall
    \/ GetStabilityRatingCall

SpecStats == InitStats /\ [][NextStats]_vars

-----------------------------------------------------------------------------
(* Properties of the statistics engine (SpecStats) *)

\* the k-th smallest sample (k = 1 .. Len(vs)), counted without sorting
OrderStatistic(vs, k) ==
    CHOOSE x \in Range(vs) :
        /\ Cardinality({i \in 1..Len(vs) : vs[i] < x}) < k
        /\ k <= Cardinality({i \in 1..Len(vs) : vs[i] <= x})

\* the percentile of rank idx = (p/100)*(n-1): the order statistic at idx
\* when idx is whole, else the interpolation between its two neighbours
InterpolatedPercentile(vs, p) ==
    LET k == p * (Len(vs) - 1)
        f == k \div 100
        r == k % 100
    IN  IF r = 0 THEN RatOf(OrderStatistic(vs, f + 1))
        ELSE Rat(100 * OrderStatistic(vs, f + 1)
                    + (OrderStatistic(vs, f + 2) - OrderStatistic(vs, f + 1)) * r, 100)

\* the percentiles a call of calculate_percentiles asked for
Requested(arg) == IF arg = None THEN {50, 90, 95, 99} ELSE Range(arg[1])

\* C11: every call of calculate_percentiles leaves the caller's sample list
\* as it was and returns, for each requested percentile p, 0 when the list
\* is empty and otherwise the order statistic of rank (p/100)*(n-1),
\* interpolated linearly between its neighbours when the rank is not whole;
\* p = 0 gives the minimum and p = 100 the maximum.
C11_Percentiles ==
    [][result'.op = "percentiles" =>
        /\ durations' = durations
        /\ result'.raised = "none"
        /\ DOMAIN result'.value = Requested(result'.patterns)
        /\ \A p \in Requested(result'.patterns) :
              /\ durations = <<>> => result'.value[p] = RatOf(0)
              /\ durations # <<>> => result'.value[p] = InterpolatedPercentile(durations, p)
              /\ (durations # <<>> /\ p = 0) => result'.value[p] = RatOf(MinSeq(durations))
              /\ (durations # <<>> /\ p = 100) => result'.value[p] = RatOf(MaxSeq(durations))]_vars

\* the median of the unsorted list 40, 10, 30, 20 has been computed as 25
C11_Witness ==
    /\ result.op = "percentiles"
    /\ result.patterns = Some(<<50>>)
    /\ durations = <<40, 10, 30, 20>>
    /\ result.value[50] = RatOf(25)

RECURSIVE SumOfSquares(_)
SumOfSquares(vs) == IF vs = <<>> THEN 0 ELSE vs[1] * vs[1] + SumOfSquares(Tail(vs))

\* the sample variance of n >= 2 samples: (n*sum(x^2) - sum(x)^2) / (n*(n-1))
SampleVariance(vs) ==
    Rat(Len(vs) * SumOfSquares(vs) - SumSeq(vs) * SumSeq(vs), Len(vs) * (Len(vs) - 1))

\* C12: calculate_basic_stats returns all fields 0 for the empty list; for a
\* single sample x count 1, mean = median = min = max = x and range =
\* std_dev = variance = 0; for two or more samples range = max - min, the
\* sample variance, and its square root as std_dev.
C12_BasicStats ==
    result.op = "basic_stats" =>
        LET s == result.value
            n == Len(durations)
        IN  /\ result.raised = "none"
            /\ s.count = n
            /\ n = 0 => /\ s.mean = RatOf(0) /\ s.median = RatOf(0)
                        /\ s.min = 0 /\ s.max = 0 /\ s.range = 0
                        /\ s.std_dev = Sqrt(RatOf(0)) /\ s.variance = RatOf(0)
            /\ n = 1 => /\ s.mean = RatOf(durations[1]) /\ s.median = RatOf(durations[1])
                        /\ s.min = durations[1] /\ s.max = durations[1] /\ s.range = 0
                        /\ s.std_dev = Sqrt(RatOf(0)) /\ s.variance = RatOf(0)
            /\ n >= 2 => /\ s.range = s.max - s.min
                         /\ \A i \in 1..n : s.min <= durations[i] /\ durations[i] <= s.max
                         /\ s.min \in Range(durations) /\ s.max \in Range(durations)
                         /\ s.mean = Rat(SumSeq(durations), n)
                         /\ s.variance = SampleVariance(durations)
                         /\ s.std_dev = Sqrt(s.variance)

\* the statistics of three samples that differ have been computed
C12_Witness ==
    /\ result.op = "basic_stats"
    /\ Len(durations) = 3
    /\ result.value.variance.num > 0
    /\ result.value.range > 0

\* C13: calculate_coefficient_of_variation never raises; it returns 0 for
\* the empty list, for a list whose mean is 0 and for a single sample, and
\* (sample standard deviation / mean) * 100 otherwise.
C13_CoefficientOfVariation ==
    result.op = "cv" =>
        LET n == Len(durations)
            sum == SumSeq(durations)
        IN  /\ result.raised = "none"
            /\ (n = 0 \/ sum = 0 \/ n = 1) => result.value = Sqrt(RatOf(0))
            /\ (n >= 2 /\ sum # 0) =>
                  /\ result.value.sign = (IF SampleVariance(durations).num = 0 THEN 0 ELSE Sign(sum))
                  /\ result.value.square
                        = RatDiv(RatMul(RatOf(10000), SampleVariance(durations)),
                                 RatMul(Rat(sum, n), Rat(sum, n)))

\* the coefficient of variation of -10, 10 (mean 0, samples not all 0) is 0
C13_Witness ==
    /\ result.op = "cv"
    /\ durations = <<-10, 10>>
    /\ result.raised = "none"
    /\ result.value = Sqrt(RatOf(0))

\* the band of a coefficient of variation cv = sign * sqrt(square)
Band(cv) ==
    IF cv.sign <= 0 \/ RatLt(cv.square, RatOf(100)) THEN "excellent"
    ELSE IF RatLt(cv.square, RatOf(400)) THEN "good"
    ELSE IF RatLt(cv.square, RatOf(900)) THEN "fair"
    ELSE "poor"

\* C14: for every non-empty sample list, analyze_performance_stability and
\* TraceReporter._get_stability_rating both rate the coefficient of
\* variation cv as excellent when cv < 10, good when 10 <= cv < 20, fair
\* when 20 <= cv < 30 and poor when cv >= 30 (the reporter capitalises the
\* word).
C14_StabilityBands ==
    /\ (result.op = "stability" /\ durations # <<>>) =>
          /\ result.value.coefficient_of_variation = CalculateCoefficientOfVariation(durations).value
          /\ result.value.stability = Band(result.value.coefficient_of_variation)
    /\ result.op = "rating" =>
          /\ result.value.cv = CalculateCoefficientOfVariation(durations).value
          /\ Lower(result.value.rating) = Band(result.value.cv)
          /\ Lower(result.value.rating) = Stability(result.value.cv)

\* a coefficient of variation of exactly 10 has been rated good
C14_Witness ==
    /\ result.op = "stability"
    /\ durations = <<9, 10, 11>>
    /\ result.value.coefficient_of_variation = Sqrt(RatOf(100))
    /\ result.value.stability = "good"

\* the samples strictly outside the 1.5*IQR fences around q1 and q3
BeyondFences(vs, q1, q3) ==
    LET iqr == RatSub(q3, q1)
        lower_bound == RatSub(q1, RatMul(Rat(3, 2), iqr))
        upper_bound == RatAdd(q3, RatMul(Rat(3, 2), iqr))
    IN  {i \in 1..Len(vs) :
            RatLt(RatOf(vs[i]), lower_bound) \/ RatLt(upper_bound, RatOf(vs[i]))}

\* C15: for a non-empty sample list the outliers reported by
\* analyze_performance_stability are exactly the samples strictly outside
\* the 1.5*IQR fences, where Q1 and Q3 are the 25th and 75th percentiles of
\* calculate_percentiles for 4 or more samples and min and max for fewer;
\* count is their number and percentage = 100 * count / len.
C15_OutliersByPercentiles ==
    (result.op = "stability" /\ durations # <<>>) =>
        LET n == Len(durations)
            q == CalculatePercentiles(durations, Some(<<25, 75>>))
            q1 == IF n >= 4 THEN q[25] ELSE RatOf(MinSeq(durations))
            q3 == IF n >= 4 THEN q[75] ELSE RatOf(MaxSeq(durations))
            K == BeyondFences(durations, q1, q3)
            o == result.value.outliers
        IN  /\ o.values = List(Pick(durations, K))
            /\ o.count = Cardinality(K)
            /\ o.percentage = Rat(100 * Cardinality(K), n)

\* C30: for a non-empty sample list with fewer than 4 samples
\* analyze_performance_stability reports no outliers: count 0, no values,
\* percentage 0; every sample lies within the fences
\* [min - 1.5*(max-min), max + 1.5*(max-min)].
C30_NoOutliersBelowFour ==
    (result.op = "stability" /\ durations # <<>> /\ Len(durations) < 4) =>
        LET lo == RatOf(MinSeq(durations))
            hi == RatOf(MaxSeq(durations))
            o == result.value.outliers
        IN  /\ o.count = 0
            /\ o.values = <<>>
            /\ o.percentage = RatOf(0)
            /\ BeyondFences(durations, lo, hi) = {}

\* C30 witness: three samples spread from -10 to 40 have been analysed and
\* no outlier was reported
C30_Witness ==
    /\ result.op = "stability"
    /\ durations = <<40, -10, 0>>
    /\ result.value.outliers.count = 0

-----------------------------------------------------------------------------
(* scripts/dataUtils.py: the metrics of one commit.  A metrics dict is an  *)
(* option: <<>> is the empty dict {} the code returns when it gives up,    *)
(* <<m>> a dict with entries m.  The token, cost and iteration entries are *)
(* left out: the spans modelled here carry no tags.                        *)

\* dataUtils.is_benchmark_span
DataIsBenchmarkSpan(span) ==
    /\ span.name # <<>>
    /\ span.duration # <<>>
    /\ LET name_lower == Lower(span.name[1])
       IN  Contains(name_lower, "http") /\ Contains(name_lower, "benchmark/analyze")

\* count_benchmark_traces
CountBenchmarkTraces(trs) ==
    Cardinality({t \in 1..Len(trs) : \E i \in 1..Len(trs[t]) : DataIsBenchmarkSpan(trs[t][i])})

RECURSIVE ExtractBenchmarkSpans(_)
\* extract_benchmark_spans: the duration_ms of every benchmark span, trace
\* by trace
ExtractBenchmarkSpans(trs) ==
    IF trs = <<>> THEN <<>>
    ELSE LET spans == SelectSeq(trs[1], DataIsBenchmarkSpan)
         IN  List([i \in 1..Len(spans) |-> spans[i].duration[1]])
                \o ExtractBenchmarkSpans(Tail(trs))

\* calculate_average(values): None for no values or no positive value
CalculateAverage(vs) ==
    LET IsPositive(v) == v > 0
        filtered_values == SelectSeq(vs, IsPositive)
    IN  IF filtered_values = <<>> THEN None
        ELSE Some(Rat(SumSeq(filtered_values), Len(filtered_values)))

\* the critical_io_ms column of a list of per-trace records
CriticalIoMs(records) == List([i \in 1..Len(records) |-> records[i].critical_io_ms])

\* build_metrics_dict
BuildMetricsDict(benchmark_spans, critical_io_data, total_benchmark_traces) ==
    LET stats == CalculateBasicStats(benchmark_spans)
        total == CalculateAverage(CriticalIoMs(critical_io_data.total))
        overhead == IF total = None THEN None
                    ELSE LET o == RatSub(stats.mean, total[1])
                         IN  Some(IF o.num < 0 THEN RatOf(0) ELSE o)
    IN  [indicative_latency |-> [average |-> stats.mean, max |-> stats.max,
                                 std_dev |-> stats.std_dev],
         min_latency |-> stats.min,
         latency_cv |-> CalculateCoefficientOfVariation(benchmark_spans).value,
         total_benchmark_traces |-> total_benchmark_traces,
         gmail_critical_io |-> CalculateAverage(CriticalIoMs(critical_io_data.gmail)),
         ai_critical_io |-> CalculateAverage(CriticalIoMs(critical_io_data.ai)),
         total_critical_io |-> total,
         orchestration_overhead |-> overhead]

\* extract_commit_metrics(commit_hash, dir_path) for the directory d:
\* d.file is its raw-zipkin-traces.json, d.warmup the warmupIterations of
\* its execution summary
ExtractCommitMetrics(d) ==
    IF d.file.kind = "missing" THEN None
    ELSE
      LET loaded == LoadTracesDirect(d.file)
      IN  IF loaded.raised # "none" THEN None
          ELSE
            LET trs == ExcludeWarmupIterations(loaded.value, d.warmup)
                benchmark_spans == ExtractBenchmarkSpans(trs)
                gmail == GetCriticalIoUnionIntervals(trs, <<"gmail">>)
                ai == GetCriticalIoUnionIntervals(trs, <<"chat">>)
                total == GetCriticalIoUnionIntervals(trs, <<"gmail", "chat">>)
            IN  IF benchmark_spans = <<>> THEN None
                ELSE IF gmail.raised # "none" \/ ai.raised # "none" \/ total.raised # "none"
                THEN None
                ELSE Some(BuildMetricsDict(benchmark_spans,
                                           [gmail |-> gmail.value, ai |-> ai.value,
                                            total |-> total.value],
                                           CountBenchmarkTraces(trs)))

-----------------------------------------------------------------------------
(* load_all_commit_data.  commits_data is a dict in insertion order: a     *)
(* list of entries [commit, metrics].                                      *)

\* characters in ascending code-point order
Alphabet == "0123456789ABCDEFGHIJKLMNOPQRSTUVWXYZabcdefghijklmnopqrstuvwxyz"

\* ord(c) up to a shift that keeps the order
Ord(c) == CHOOSE i \in 1..Len(Alphabet) : SubSeq(Alphabet, i, i) = c

RECURSIVE StrLeq(_, _)
\* a <= b on strings
StrLeq(a, b) ==
    IF a = "" THEN TRUE
    ELSE IF b = "" THEN FALSE
    ELSE LET x == Ord(SubSeq(a, 1, 1))
             y == Ord(SubSeq(b, 1, 1))
         IN  IF x # y THEN x < y
             ELSE StrLeq(SubSeq(a, 2, Len(a)), SubSeq(b, 2, Len(b)))

\* the keys of a dict, in insertion order
Keys(dict) == List([i \in 1..Len(dict) |-> dict[i].commit])

HasKey(dict, k) == \E i \in 1..Len(dict) : dict[i].commit = k

\* dict[k]
Lookup(dict, k) == dict[CHOOSE i \in 1..Len(dict) : dict[i].commit = k].metrics

\* dict[k] = v
DictSet(dict, k, v) ==
    IF HasKey(dict, k)
    THEN List([i \in 1..Len(dict) |-> IF dict[i].commit = k
                                       THEN [commit |-> k, metrics |-> v] ELSE dict[i]])
    ELSE Append(dict, [commit |-> k, metrics |-> v])

\* metadata.get('tag', commit_hash[:8])
TagOf(d) == Get(d.tag, SubSeq(d.commit, 1, IF Len(d.commit) < 8 THEN Len(d.commit) ELSE 8))

\* metrics with metrics['_tag'] set
Tagged(metrics, d) ==
    [m |-> metrics, tag |-> TagOf(d)]

RECURSIVE SortedByTag(_)
\* sorted(commits_data.keys(), key=lambda x: commits_data[x]['_tag'])
SortedByTag(dict) ==
    IF dict = <<>> THEN <<>>
    ELSE LET rest == SortedByTag(SubSeq(dict, 1, Len(dict) - 1))
             x == dict[Len(dict)]
             n == Cardinality({i \in 1..Len(rest) : StrLeq(rest[i].metrics.tag, x.metrics.tag)})
         IN  SubSeq(rest, 1, n) \o <<x>> \o SubSeq(rest, n + 1, Len(rest))

\* the directory paired with a commit of commits_data
MatchingDir(commit, dirs, new) ==
    IF commit = new.commit THEN Some(new.path)
    ELSE IF \E i \in 1..Len(dirs) : dirs[i].commit = commit
    THEN Some(dirs[CHOOSE i \in 1..Len(dirs) :
                      /\ dirs[i].commit = commit
                      /\ \A j \in 1..(i - 1) : dirs[j].commit # commit].path)
    ELSE None

\* final_dirs
FinalDirs(dict, dirs, new) ==
    LET sorted_commits == Keys(SortedByTag(dict))
    IN  List([i \in 1..Len(sorted_commits) |->
                [commit |-> sorted_commits[i],
                 dir |-> MatchingDir(sorted_commits[i], dirs, new)[1]]])

\* traces of the commit files
GoodTrace(tid) ==
    <<Span(Some("1"), None, Some(BenchmarkName), Some(0), Some(2 * Tick), Some(tid)),
      Span(Some("2"), Some("1"), Some("gmail.list"), Some(0), Some(Tick), Some(tid))>>

\* a trace whose Gmail span has no 'id'
MalformedTrace(tid) ==
    <<Span(Some("1"), None, Some(BenchmarkName), Some(Tick), Some(2 * Tick), Some(tid)),
      Span(None, Some("1"), Some("gmail.get"), Some(Tick), Some(Tick), Some(tid))>>

\* a trace without a benchmark request
OtherTrace(tid) ==
    <<Span(Some("1"), None, Some("db.query"), Some(0), Some(Tick), Some(tid))>>

CommitFiles ==
    {GarbageFile,
     WrapperFile(<<GoodTrace("a"), GoodTrace("b")>>),
     WrapperFile(<<GoodTrace("a"), MalformedTrace("b")>>),
     WrapperFile(<<OtherTrace("a")>>)}

CommitHashes == {"1f0e9d8c7b6a", "a1b2c3d4e5f6"}

NewCommitHashes == {"a1b2c3d4e5f6", "c0ffee001122"}

CommitTags == {None, Some("v1")}

\* warmupIterations of the execution summaries
CommitWarmups == {0, 1}

\* most directories find_benchmark_directories returns
MaxDirs == 2

\* a results directory of a commit
CommitDir(commit, traces_file, warmup, tag) ==
    [commit |-> commit, path |-> "results/" \o commit, file |-> traces_file,
     warmup |-> warmup, tag |-> tag]

\* the directories find_benchmark_directories can return: one per commit,
\* each holding a trace file
BenchmarkDirs ==
    {dirs \in SeqsUpTo({CommitDir(c, f, w, t) :
                            c \in CommitHashes, f \in CommitFiles,
                            w \in CommitWarmups, t \in CommitTags}, MaxDirs) :
        \A i, j \in 1..Len(dirs) : i # j => dirs[i].commit # dirs[j].commit}

\* the directory of the new commit; its trace file may be missing
NewDirs ==
    {[CommitDir(c, f, w, t) EXCEPT !.path = "new/" \o c] :
        c \in NewCommitHashes, f \in CommitFiles \cup {MissingFile},
        w \in CommitWarmups, t \in CommitTags}

InitBatch ==
    /\ pc = "existing"
    /\ file = MissingFile
    /\ warmup_iterations = 0
    /\ traces = <<>>
    /\ error = "none"
    /\ NoSamples
    /\ NoWalk
    /\ result = NoCall
    /\ calls = 0
    /\ benchmark_dirs \in BenchmarkDirs
    /\ new_dir \in NewDirs
    /\ dir_index = 0
    /\ commits_data = <<>>

\* one iteration of the loop over all_benchmark_dirs
LoadExistingCommit ==
    /\ pc = "existing"
    /\ dir_index < Len(benchmark_dirs)
    /\ dir_index' = dir_index + 1
    /\ LET d == benchmark_dirs[dir_index + 1]
           metrics == ExtractCommitMetrics(d)
       IN  commits_data' = IF metrics # None
                           THEN DictSet(commits_data, d.commit, Tagged(metrics[1], d))
                           ELSE commits_data
    /\ UNCHANGED <<file, warmup_iterations, traces, error, statsVars, walkVars,
                   benchmark_dirs, new_dir, pc, result, calls>>

\* the rest of load_all_commit_data: the new commit, the sort by tag and
\* the return value
ProcessNewCommit ==
    /\ pc = "existing"
    /\ dir_index = Len(benchmark_dirs)
    /\ pc' = "returned"
    /\ LET new_metrics == ExtractCommitMetrics(new_dir)
       IN  IF new_metrics = None
           THEN /\ result' = [op |-> "load_all_commit_data", patterns |-> <<>>,
                              raised |-> "none",
                              value |-> [commits_data |-> <<>>, final_dirs |-> <<>>]]
                /\ UNCHANGED commits_data
           ELSE /\ commits_data' = DictSet(commits_data, new_dir.commit,
                                           Tagged(new_metrics[1], new_dir))
                /\ result' = [op |-> "load_all_commit_data", patterns |-> <<>>,
                              raised |-> "none",
                              value |-> [commits_data |-> commits_data',
                                         final_dirs |-> FinalDirs(commits_data',
                                                                  benchmark_dirs, new_dir)]]
    /\ UNCHANGED <<file, warmup_iterations, traces, error, statsVars, walkVars,
                   benchmark_dirs, new_dir, dir_index, calls>>

NextBatch == LoadExistingCommit \/ ProcessNewCommit

SpecBatch == InitBatch /\ [][NextBatch]_vars

-----------------------------------------------------------------------------
(* The calculators on a list of several traces *)

\* a root with two Gmail children, the second starting when the first ends
TreeTrace(tid) ==
    <<Span(Some("1"), None, Some("handler"), Some(0), Some(4 * Tick), Some(tid)),
      Span(Some("2"), Some("1"), Some("Gmail.get"), Some(0), Some(Tick), Some(tid)),
      Span(Some("3"), Some("1"), Some("Gmail.get"), Some(Tick), Some(2 * Tick), Some(tid))>>

MultiTraceSet ==
    {<<>>, GoodTrace("a"), TreeTrace("b"), MalformedTrace("c"), OtherTrace("d")}

InitMulti == \E trs \in SeqsUpTo(MultiTraceSet, MaxTraces) : Constructed(trs)

NextMulti ==
    \/ GetGmailApiCriticalIo
    \/ GetAiApiCriticalIo
    \/ GetTotalCriticalIo
    \/ GetCriticalIoByPatternCall

SpecMulti == InitMulti /\ [][NextMulti]_vars

\* what the calculator of the last call returns for the trace alone
Alone(trace) ==
    IF result.op = "union" THEN GetCriticalIoUnionIntervals(<<trace>>, result.patterns)
    ELSE GetCriticalIoByPattern(<<trace>>, result.patterns)

\* C19: both calculators return one record per trace, in list order, and
\* the record of a trace is the one the calculator returns for that trace
\* alone, whatever the other traces of the list are.
C19_TracesIndependent ==
    result.op \in {"union", "recursive"} =>
        \A i \in 1..Len(traces) :
            Alone(traces[i]).raised = "none" =>
                /\ result.raised = "none"
                /\ Len(result.value) = Len(traces)
                /\ result.value[i] = Alone(traces[i]).value[1]

-----------------------------------------------------------------------------
(* Properties of load_all_commit_data (SpecBatch) *)

\* the directories load_all_commit_data has processed so far
Processed ==
    [i \in 1..dir_index |-> benchmark_dirs[i]]
        \o (IF pc = "returned" THEN <<new_dir>> ELSE <<>>)

\* the trace file of d parses and holds a benchmark request
Parses(d) ==
    /\ d.file.kind # "missing"
    /\ LoadTracesDirect(d.file).raised = "none"
    /\ ExtractBenchmarkSpans(ExcludeWarmupIterations(LoadTracesDirect(d.file).value, d.warmup)) # <<>>

\* some retained trace of d's file holds a Gmail or AI span without an id
HasMalformedTrace(d) ==
    LET trs == ExcludeWarmupIterations(LoadTracesDirect(d.file).value, d.warmup)
    IN  \E t \in 1..Len(trs) : UnionRaises(trs[t], <<"gmail", "chat">>)

\* the retained traces of d's file that the calculator can process
WellFormedTraces(d) ==
    LET trs == ExcludeWarmupIterations(LoadTracesDirect(d.file).value, d.warmup)
        Ok(trace) == ~UnionRaises(trace, <<"gmail", "chat">>)
    IN  SelectSeq(trs, Ok)

\* C16: a malformed span costs its own trace only: a commit whose file
\* parses and holds a benchmark request gets metrics, computed from the
\* traces the calculator can process, also when another trace of the file
\* holds a matching span without an id.
C16_FailureConfinedToTrace ==
    \A i \in 1..dir_index :
        LET d == benchmark_dirs[i]
        IN  (Parses(d) /\ (pc = "returned" => d.commit # new_dir.commit)) =>
                /\ HasKey(commits_data, d.commit)
                /\ Lookup(commits_data, d.commit).m.gmail_critical_io
                      = CalculateAverage(CriticalIoMs(
                            GetCriticalIoUnionIntervals(WellFormedTraces(d), <<"gmail">>).value))

\* C17: whatever files fail, the returned commits_data holds the metrics
\* of every commit of the batch whose own file parsed.
C17_BatchSurvivesFailure ==
    pc = "returned" =>
        \A i \in 1..Len(benchmark_dirs) :
            LET d == benchmark_dirs[i]
            IN  ExtractCommitMetrics(d) # None =>
                    HasKey(result.value.commits_data, d.commit)

-----------------------------------------------------------------------------
(* The recursive aggregator on span forests: several roots, spans whose    *)
(* parentId names no span of the trace, self-parents and cycles            *)

\* starts and durations of the spans of a forest, in ticks
ForestTicks == {0, 3}

ForestNames == {"Gmail.get", "db.query"}

ForestShapes ==
    {Span(None, None, Some(n), Some(t * Tick), Some(d * Tick), Some("a")) :
        n \in ForestNames, t \in ForestTicks, d \in ForestTicks}

\* a parentId that is the id of no span of a forest
DanglingId == Some(9)

\* the parentIds of the spans of a trace of three spans: three roots; a
\* root with a child, and a second root; a root with two children; a
\* chain; a span whose parentId is in no span of the trace, alone and with
\* a child; a span that is its own parent, with a child; a cycle of two
ForestLayouts ==
    {<<None, None, None>>,
     <<None, Some(1), None>>,
     <<None, Some(1), Some(1)>>,
     <<None, Some(1), Some(2)>>,
     <<None, None, DanglingId>>,
     <<None, DanglingId, Some(2)>>,
     <<None, Some(2), Some(2)>>,
     <<None, Some(3), Some(2)>>}

\* the parentId of a span of a trace of n spans: absent, the id of a span of
\* the trace (its own included), or an id that is not in the trace
ParentChoices(n) == {None, DanglingId} \cup {Some(i) : i \in 1..n}

\* the spans of the given shapes with ids 1, 2, ... and the given parentIds
Forest(shapes, parents) ==
    [i \in 1..Len(shapes) |-> [shapes[i] EXCEPT !.id = <<i>>, !.parentId = parents[i]]]

\* every trace of one or two spans, the traces of three spans in the
\* layouts above, and the roots that do not match with three children
ForestTraceSet ==
    UNION {{Forest(shapes, parents) :
               shapes \in [1..n -> ForestShapes], parents \in [1..n -> ParentChoices(n)]} :
           n \in 1..2}
      \cup {Forest(shapes, parents) :
               shapes \in [1..3 -> ForestShapes], parents \in ForestLayouts}
      \cup {Forest(<<Span(None, None, Some("handler"), Some(0), Some(0), Some("a"))>> \o shapes,
                   <<None, Some(1), Some(1), Some(1)>>) :
               shapes \in [1..3 -> ForestShapes]}

InitForest == \E t \in ForestTraceSet : Constructed(<<t>>)

NextForest == GetCriticalIoByPatternCall

SpecForest == InitForest /\ [][NextForest]_vars

-----------------------------------------------------------------------------
(* Properties of the recursive aggregator on forests (SpecForest) *)

\* the last call measured trace t with the recursive aggregator
Measured(t) ==
    /\ RecursiveCalled
    /\ result.value[t].execution_pattern = "recursive_hierarchical"

\* the root spans of a trace, in list order
RootSpans(trace) ==
    LET IsRoot(span) == span.parentId = <<>>
    IN  SelectSeq(trace, IsRoot)

\* the aggregated values of the root spans
RootValues(trace, patterns) ==
    LET root_spans == RootSpans(trace)
    IN  List([i \in 1..Len(root_spans) |->
                AggregateSpanRecursive(root_spans[i], SpanLookupValues(trace), patterns)])

\* the roots combined as a sibling group is: only the roots with a
\* non-zero value take part in the concurrency test
CombinedLikeChildren(trace, patterns) ==
    LET root_spans == RootSpans(trace)
        root_values == RootValues(trace, patterns)
        critical == {i \in 1..Len(root_spans) : root_values[i] > 0}
        critical_values == Pick(root_values, critical)
        critical_dicts == [n \in 1..Cardinality(critical) |->
                              SpanDict(Pick(root_spans, critical)[n])]
    IN  IF critical = {} THEN 0
        ELSE IF Cardinality(critical) = 1 THEN critical_values[1]
        ELSE IF CheckConcurrency(critical_dicts) THEN MaxSeq(critical_values)
        ELSE SumSeq(critical_values)

\* C21: at the top level only the roots with a non-zero value take part in
\* the concurrency test: the result is the max or the sum of the non-zero
\* roots' values according to the overlap of those roots alone, the value
\* of the only non-zero root when there is one, and 0 when there is none.
C21_ZeroRootsTakeNoPart ==
    \A t \in 1..Len(traces) :
        Measured(t) =>
            result.value[t].critical_io_ms = CombinedLikeChildren(traces[t], result.patterns)

\* the parentId of span i is present and is the id of no span of the trace
Dangling(trace, i) ==
    /\ trace[i].parentId # <<>>
    /\ \A j \in 1..Len(trace) : trace[j].id # trace[i].parentId

\* the trace with every dangling parentId removed
WithoutDanglingParents(trace) ==
    [i \in 1..Len(trace) |->
        IF Dangling(trace, i) THEN [trace[i] EXCEPT !.parentId = <<>>] ELSE trace[i]]

\* C22: a span whose parentId is present but is the id of no span of the
\* trace is treated as a root: the trace's result is the one of the same
\* trace with that parentId absent.
C22_DanglingParentIsRoot ==
    \A t \in 1..Len(traces) :
        Measured(t) =>
            result.value[t].critical_io_ms
                = CalculateFinalCriticalIoRecursive(WithoutDanglingParents(traces[t]),
                                                    result.patterns)

RECURSIVE ReachesRoot(_, _, _)
\* span i has no parentId, or its parentId leads to a span without one in
\* at most fuel steps
ReachesRoot(trace, i, fuel) ==
    IF trace[i].parentId = <<>> THEN TRUE
    ELSE IF fuel = 0 THEN FALSE
    ELSE \E j \in 1..Len(trace) :
            trace[j].id = trace[i].parentId /\ ReachesRoot(trace, j, fuel - 1)

\* the spans the aggregator visits: those reachable from a root
Visited(trace) == {i \in 1..Len(trace) : ReachesRoot(trace, i, Len(trace))}

\* the spans of a lookup without the span c
Without(span_lookup, c) ==
    LET Other(s) == s.id # c.id
    IN  SelectSeq(span_lookup, Other)

\* the spans of a lookup with the span c moved to another start and length
Moved(span_lookup, c, timestamp, duration) ==
    [n \in 1..Len(span_lookup) |->
        IF span_lookup[n].id = c.id
        THEN [c EXCEPT !.timestamp = <<timestamp>>, !.duration = <<duration>>]
        ELSE span_lookup[n]]

\* C23: a child whose computed value is 0 takes no part in the overlap test
\* of its sibling group and adds nothing to the parent: the parent's value
\* is the same without the child (so inserting it changes nothing either)
\* and with the child moved to any other timestamp and duration that leave
\* its value 0.
C23_ZeroChildIgnored ==
    \A t \in 1..Len(traces) :
        Measured(t) =>
            LET trace == traces[t]
                patterns == result.patterns
                span_lookup == SpanLookupValues(trace)
                Value(span, lookup) == AggregateSpanRecursive(span, lookup, patterns)
            IN  \A p, c \in Visited(trace) :
                    (trace[c].parentId = trace[p].id /\ Value(trace[c], span_lookup) = 0) =>
                        /\ Value(trace[p], Without(span_lookup, trace[c]))
                              = Value(trace[p], span_lookup)
                        /\ \A ts, d \in {k * Tick : k \in ForestTicks} :
                              LET moved == Moved(span_lookup, trace[c], ts, d)
                                  child == [trace[c] EXCEPT !.timestamp = <<ts>>,
                                                            !.duration = <<d>>]
                              IN  Value(child, moved) = 0 =>
                                      Value(trace[p], moved) = Value(trace[p], span_lookup)

\* C23 witness: a root with two matching children that only touch and a
\* third child that does not match, lasts, and starts with the first; the
\* result is the sum of the two matching children.
C23_Witness ==
    /\ Measured(1)
    /\ result.patterns = <<"gmail">>
    /\ Len(traces[1]) = 4
    /\ \E a, b, z \in 2..4 :
          /\ MatchesAny(traces[1][a], result.patterns)
          /\ MatchesAny(traces[1][b], result.patterns)
          /\ ~MatchesAny(traces[1][z], result.patterns)
          /\ traces[1][a].timestamp = <<0>>
          /\ traces[1][a].duration = <<3 * Tick>>
          /\ traces[1][b].timestamp = <<3 * Tick>>
          /\ traces[1][b].duration = <<3 * Tick>>
          /\ traces[1][z].timestamp = <<0>>
          /\ traces[1][z].duration = <<3 * Tick>>
    /\ result.value[1].critical_io_ms = 6 * Tick

RECURSIVE LeavesTrace(_, _, _)
\* the parent links from span i end, in at most fuel steps, at a span
\* without parentId or with a parentId that is in no span of the trace
LeavesTrace(trace, i, fuel) ==
    \/ trace[i].parentId = <<>>
    \/ Dangling(trace, i)
    \/ /\ fuel > 0
       /\ \E j \in 1..Len(trace) :
             trace[j].id = trace[i].parentId /\ LeavesTrace(trace, j, fuel - 1)

\* no span of the trace is its own ancestor
IsForest(trace) == \A i \in 1..Len(trace) : LeavesTrace(trace, i, Len(trace))

\* the matching spans the aggregator visits
VisitedMatching(trace, patterns) == Visited(trace) \cap MatchingIdx(trace, patterns)

\* C27: for a trace that forms a forest (unique ids, non-negative
\* durations) the recursive result is non-negative, at least the duration
\* of every matching span reachable from a root, at most the sum of the
\* durations of all matching spans, and 0 exactly when no reachable
\* matching span has a positive duration.
C27_ResultBounds ==
    RecursiveCalled =>
        \A t \in 1..Len(traces) :
            (traces[t] # <<>> /\ IsForest(traces[t])) =>
                LET trace == traces[t]
                    r == result.value[t].critical_io_ms
                    V == VisitedMatching(trace, result.patterns)
                IN  /\ r >= 0
                    /\ \A i \in V : r >= Get(trace[i].duration, 0)
                    /\ r <= SumOfDurations(trace, MatchingIdx(trace, result.patterns))
                    /\ (r = 0) <=> (\A i \in V : Get(trace[i].duration, 0) = 0)

\* C27 witness: three spans, two of them roots, with a matching span that
\* is not reachable from a root; the result is positive and below the sum
\* of the matching durations.
C27_Witness ==
    /\ Measured(1)
    /\ Len(traces[1]) = 3
    /\ IsForest(traces[1])
    /\ Len(RootSpans(traces[1])) = 2
    /\ \E i \in MatchingIdx(traces[1], result.patterns) :
          i \notin Visited(traces[1]) /\ traces[1][i].duration[1] > 0
    /\ result.value[1].critical_io_ms > 0
    /\ result.value[1].critical_io_ms
          < SumOfDurations(traces[1], MatchingIdx(traces[1], result.patterns))

\* the permutations of 1..n
Perms(n) == {f \in [1..n -> 1..n] : \A i, j \in 1..n : f[i] = f[j] => i = j}

\* the list in the order given by the permutation f
Permuted(list, f) == [i \in 1..Len(list) |-> list[f[i]]]

\* the sibling groups the concurrency test is called with for a trace: the
\* children of each visited span and the roots, as span dicts, in list order
SiblingGroups(trace) ==
    LET span_lookup == SpanLookupValues(trace)
        ChildrenOf(p) == LET IsChild(s) == s.parentId = trace[p].id
                         IN  SelectSeq(span_lookup, IsChild)
        Dicts(spans) == [n \in 1..Len(spans) |-> SpanDict(spans[n])]
    IN  {Dicts(ChildrenOf(p)) : p \in Visited(trace)} \cup {Dicts(RootSpans(trace))}

\* C28: the recursive result does not depend on the order of the spans in
\* the trace's list: every permutation of the spans gives the same value,
\* and _check_concurrency classifies every sibling group the same way in
\* every order.
C28_OrderIndependent ==
    \A t \in 1..Len(traces) :
        Measured(t) =>
            /\ \A f \in Perms(Len(traces[t])) :
                  CalculateFinalCriticalIoRecursive(Permuted(traces[t], f), result.patterns)
                      = result.value[t].critical_io_ms
            /\ \A group \in SiblingGroups(traces[t]) :
                  \A f \in Perms(Len(group)) :
                      CheckConcurrency(Permuted(group, f)) = CheckConcurrency(group)

-----------------------------------------------------------------------------
(* The recursive aggregation of one trace, call by call.  A frame of the   *)
(* stack is one running call: the position of its span in the trace (0 for *)
(* _calculate_final_critical_io_recursive itself), the positions of the    *)
(* spans it calls _aggregate_span_recursive for, and the values returned   *)
(* so far.  The span ids of the trace are unique, so span_lookup.values()  *)
(* is the trace's list.                                                    *)

\* calls of _aggregate_span_recursive followed per span
MaxVisits == 2

\* the positions in K as a list, in list order
Positions(K) ==
    List([n \in 1..Cardinality(K) |->
            CHOOSE i \in K : Cardinality({j \in K : j < i}) = n - 1])

\* Variant: the aggregation starts from every span of the trace.
RootPositions_All(trace) == Positions(1..Len(trace))

\* root_spans: the spans with span.get('parentId') is None
RootPositions(trace) == Positions({i \in 1..Len(trace) : trace[i].parentId = <<>>})

\* children: the spans s with s.get('parentId') == span_id
ChildPositions(trace, i) ==
    Positions({j \in 1..Len(trace) : trace[j].parentId = trace[i].id})

\* the value _aggregate_span_recursive returns for a span, given its
\* children and the values returned for them (lines 632-674)
SpanValue(span, children, child_values, critical_patterns) ==
    LET span_value == IF MatchesAny(span, critical_patterns)
                      THEN Get(span.duration, 0) ELSE 0
        critical == {i \in 1..Len(children) : child_values[i] > 0}
        critical_values == Pick(child_values, critical)
        child_span_dicts == [n \in 1..Cardinality(critical) |->
                                SpanDict(Pick(children, critical)[n])]
    IN  IF children = <<>> THEN span_value
        ELSE IF Cardinality(critical) <= 1 THEN span_value + SumSeq(child_values)
        ELSE IF CheckConcurrency(child_span_dicts)
             THEN span_value + MaxSeq(critical_values)
             ELSE span_value + SumSeq(critical_values)

\* the value _calculate_final_critical_io_recursive returns, given the
\* roots and the values returned for them (lines 590-614)
FinalValue(root_spans, root_values) ==
    LET root_span_dicts == [i \in 1..Len(root_spans) |-> SpanDict(root_spans[i])]
    IN  IF root_spans = <<>> THEN 0
        ELSE IF Len(root_values) = 1 THEN root_values[1]
        ELSE IF CheckConcurrency(root_span_dicts) THEN MaxSeq(root_values)
        ELSE SumSeq(root_values)

Frame(span, children) == [span |-> span, children |-> children, child_values |-> <<>>]

\* the running call, and whether it has a call left to make
Top == stack[Len(stack)]
Complete(frame) == Len(frame.child_values) = Len(frame.children)

\* the spans at the given positions of the aggregated trace
SpansAt(positions) == [n \in 1..Len(positions) |-> traces[1][positions[n]]]

\* _calculate_final_critical_io_recursive(trace, patterns) is called
StartWalk ==
    /\ pc = "ready"
    /\ pc' = "walking"
    /\ \E patterns \in RecursivePatternLists :
          result' = Call("walk", patterns, [raised |-> "none", value |-> 0])
    /\ stack' = <<Frame(0, RootPositions(traces[1]))>>
    /\ visits' = [i \in 1..Len(traces[1]) |-> 0]
    /\ UNCHANGED <<statsVars, batchVars, file, warmup_iterations, traces, error, calls>>

\* the running call calls _aggregate_span_recursive for its next root or
\* child (lines 596 and 629)
Descend ==
    /\ pc = "walking"
    /\ ~Complete(Top)
    /\ LET child == Top.children[Len(Top.child_values) + 1]
       IN  /\ visits[child] < MaxVisits
           /\ stack' = Append(stack, Frame(child, ChildPositions(traces[1], child)))
           /\ visits' = [visits EXCEPT ![child] = @ + 1]
    /\ UNCHANGED <<parserVars, statsVars, batchVars, result, calls>>

\* a call of _aggregate_span_recursive returns its value to its caller
Return ==
    /\ pc = "walking"
    /\ Len(stack) > 1
    /\ Complete(Top)
    /\ LET value == SpanValue(traces[1][Top.span], SpansAt(Top.children),
                              Top.child_values, result.patterns)
           caller == Len(stack) - 1
       IN  stack' = [SubSeq(stack, 1, caller) EXCEPT
                        ![caller].child_values = Append(@, value)]
    /\ UNCHANGED <<parserVars, statsVars, batchVars, result, calls, visits>>

\* _calculate_final_critical_io_recursive returns
Finish ==
    /\ pc = "walking"
    /\ Len(stack) = 1
    /\ Complete(Top)
    /\ pc' = "done"
    /\ result' = [result EXCEPT !.value = FinalValue(SpansAt(Top.children), Top.child_values)]
    /\ stack' = <<>>
    /\ UNCHANGED <<statsVars, batchVars, file, warmup_iterations, traces, error, calls, visits>>

\* the spans of the aggregated traces: two matching spans that touch and a
\* span that does not match
WalkShapes ==
    {Span(None, None, Some("Gmail.get"), Some(0), Some(3 * Tick), Some("a")),
     Span(None, None, Some("Gmail.get"), Some(3 * Tick), Some(3 * Tick), Some("a")),
     Span(None, None, Some("db.query"), Some(0), Some(3 * Tick), Some("a"))}

\* the layouts of the forests with at most two roots
WalkLayouts == {parents \in ForestLayouts : \E i \in 1..3 : parents[i] # None}

\* every trace of one or two of these spans, and the traces of three in
\* these layouts
WalkTraceSet ==
    UNION {{Forest(shapes, parents) :
               shapes \in [1..n -> WalkShapes], parents \in [1..n -> ParentChoices(n)]} :
           n \in 1..2}
      \cup {Forest(shapes, parents) :
               shapes \in [1..3 -> WalkShapes], parents \in WalkLayouts}

InitWalk == \E t \in WalkTraceSet : Constructed(<<t>>)

NextWalk == StartWalk \/ Descend \/ Return \/ Finish

SpecWalk == InitWalk /\ [][NextWalk]_vars

\* every call that can be made or can return eventually is or does
SpecWalkFair == SpecWalk /\ WF_vars(NextWalk)

-----------------------------------------------------------------------------
(* Properties of the aggregation call by call (SpecWalkFair) *)

\* the spans of the trace that are reachable from a root, in list order
ReachableSpans(trace) == SpansAt(Positions(Visited(trace)))

\* no span is aggregated twice, and only spans reachable from a root are
\* aggregated: a span on a cycle of parentIds, or below one, never is; when
\* the aggregation has returned, every reachable span has been aggregated
\* once and the result is the one of the reachable spans alone
WalkSafe ==
    pc \in {"walking", "done"} =>
        LET trace == traces[1]
        IN  /\ \A i \in 1..Len(trace) :
                  /\ visits[i] <= 1
                  /\ visits[i] = 1 => i \in Visited(trace)
                  /\ ~LeavesTrace(trace, i, Len(trace)) => visits[i] = 0
            /\ Len(stack) <= Len(trace) + 1
            /\ pc = "done" =>
                  /\ \A i \in Visited(trace) : visits[i] = 1
                  /\ result.value = CalculateFinalCriticalIoRecursive(trace, result.patterns)
                  /\ result.value
                        = CalculateFinalCriticalIoRecursive(ReachableSpans(trace), result.patterns)

\* C29: for every trace with unique span ids the recursive aggregation
\* terminates, also when the parentId links hold a cycle or a self-parent:
\* only spans reachable from a span without parentId are visited, each of
\* them exactly once, and the spans that are not reachable contribute 0.
\* The counts of visits never decrease, so the counts at the return are
\* the counts of the whole aggregation.
C29_Terminates == <>(pc = "done" /\ WalkSafe)

\* C29 witness: the aggregation of a root and two spans that are each
\* other's parent, one of them matching and lasting, has returned: the root
\* was visited once, the two others never.
C29_Witness ==
    /\ pc = "done"
    /\ Len(traces[1]) = 3
    /\ traces[1][2].parentId = traces[1][3].id
    /\ traces[1][3].parentId = traces[1][2].id
    /\ MatchesAny(traces[1][2], result.patterns)
    /\ traces[1][2].duration[1] > 0
    /\ visits = <<1, 0, 0>>
    /\ result.value = IF MatchesAny(traces[1][1], result.patterns)
                      THEN traces[1][1].duration[1] ELSE 0

-----------------------------------------------------------------------------
(* AI token usage.  A span that has the key 'tags' is a record with the    *)
(* field tags, a dict of the three gen_ai.usage.* tags, each absent or a   *)
(* string; the other spans have no such field.                             *)

DigitChars == "0123456789"

DigitSet == {SubSeq(DigitChars, i, i) : i \in 1..10}

DigitValue(c) == (CHOOSE i \in 1..10 : SubSeq(DigitChars, i, i) = c) - 1

RECURSIVE ParseDigits(_)
ParseDigits(s) ==
    IF Len(s) = 0 THEN 0
    ELSE ParseDigits(SubSeq(s, 1, Len(s) - 1)) * 10 + DigitValue(SubSeq(s, Len(s), Len(s)))

\* int(value) for a string: <<n>> for a string of decimal digits, and <<>>
\* where int raises ValueError (signs, blanks and underscores do not occur
\* in the tag values of the model)
ParseInt(s) ==
    IF Len(s) > 0 /\ \A i \in 1..Len(s) : SubSeq(s, i, i) \in DigitSet
    THEN <<ParseDigits(s)>>
    ELSE <<>>

\* the span with the key 'tags'
WithTags(span, tags) ==
    [f \in DOMAIN span \cup {"tags"} |-> IF f = "tags" THEN tags ELSE span[f]]

\* 'name' in span and 'tags' in span and span['name'].lower().startswith('chat')
IsTokenSpan(span) ==
    /\ span.name # <<>>
    /\ "tags" \in DOMAIN span
    /\ StartsWith(Lower(span.name[1]), "chat")

NoTokens == [total_tokens |-> 0, input_tokens |-> 0, output_tokens |-> 0]

\* Variant: a tag that is not an integer is skipped and the next tag of the
\* span is read.
AddSpanTokens_PerTag(sums, span) ==
    IF ~IsTokenSpan(span) THEN sums
    ELSE [total_tokens |-> sums.total_tokens + Get(ParseInt(Get(span.tags.total, "")), 0),
          input_tokens |-> sums.input_tokens + Get(ParseInt(Get(span.tags.input, "")), 0),
          output_tokens |-> sums.output_tokens + Get(ParseInt(Get(span.tags.output, "")), 0)]

\* one round of the loop over the spans (lines 691-717): the sums after the
\* span.  A tag that is not an integer ends the round ('continue'), the
\* tags read before it are kept.
AddSpanTokens(sums, span) ==
    IF ~IsTokenSpan(span) THEN sums
    ELSE
      LET tags == span.tags
          total == IF tags.total = <<>> THEN <<0>> ELSE ParseInt(tags.total[1])
          input == IF tags.input = <<>> THEN <<0>> ELSE ParseInt(tags.input[1])
          output == IF tags.output = <<>> THEN <<0>> ELSE ParseInt(tags.output[1])
      IN  IF total = <<>> THEN sums
          ELSE IF input = <<>>
               THEN [sums EXCEPT !.total_tokens = @ + total[1]]
          ELSE IF output = <<>>
               THEN [sums EXCEPT !.total_tokens = @ + total[1], !.input_tokens = @ + input[1]]
          ELSE [total_tokens |-> sums.total_tokens + total[1],
                input_tokens |-> sums.input_tokens + input[1],
                output_tokens |-> sums.output_tokens + output[1]]

RECURSIVE TokenSums(_, _)
\* the sums after the loop over the spans of a trace
TokenSums(trace, sums) ==
    IF trace = <<>> THEN sums
    ELSE TokenSums(Tail(trace), AddSpanTokens(sums, trace[1]))

\* the record get_ai_token_usage appends for a benchmark trace
TokenRecord(trace) ==
    LET sums == TokenSums(trace, NoTokens)
        WithTotal(s) == IsTokenSpan(s) /\ s.tags.total # <<>>
    IN  [trace_id |-> FirstTraceId(trace),
         total_tokens |-> sums.total_tokens,
         input_tokens |-> sums.input_tokens,
         output_tokens |-> sums.output_tokens,
         ai_spans_with_tokens |-> Len(SelectSeq(trace, WithTotal))]

\* TraceParser.get_ai_token_usage
GetAiTokenUsage(trs) ==
    LET benchmark_traces == SelectSeq(trs, IsBenchmarkTrace)
    IN  List([i \in 1..Len(benchmark_traces) |-> TokenRecord(benchmark_traces[i])])

\* get_ai_token_usage()
GetAiTokenUsageCall ==
    /\ pc = "ready"
    /\ calls < MaxCalls
    /\ calls' = calls + 1
    /\ result' = Call("tokens", <<"chat">>, [raised |-> "none", value |-> GetAiTokenUsage(traces)])
    /\ UNCHANGED <<statsVars, batchVars, walkVars, pc, file, warmup_iterations, traces, error>>

\* the values of a token tag: absent, two integers, and a word
TagValues == {None, Some("5"), Some("12"), Some("abc")}

Tags(total, input, output) == [total |-> total, input |-> input, output |-> output]

TagSets == {Tags(t, i, o) : t, i, o \in TagValues}

ChatSpan(tid) == Span(Some("c"), None, Some("Chat completion"), Some(0), Some(Tick), Some(tid))

BenchmarkSpan(tid) == Span(Some("h"), None, Some(BenchmarkName), Some(0), Some(Tick), Some(tid))

\* the spans next to the benchmark request: AI spans with every choice of
\* tags, an AI span without tags, and a tagged span that is not an AI span
TokenSpans(tid) ==
    {WithTags(ChatSpan(tid), tags) : tags \in TagSets}
        \cup {ChatSpan(tid),
              WithTags(Span(Some("g"), None, Some("Gmail.get"), Some(0), Some(Tick), Some(tid)),
                       Tags(Some("5"), Some("5"), Some("5")))}

\* a second AI span of a trace
SecondSpans(tid) ==
    {WithTags(ChatSpan(tid), Tags(Some("5"), Some("5"), Some("5"))),
     WithTags(ChatSpan(tid), Tags(Some("abc"), Some("12"), None))}

\* benchmark traces with one or two further spans, a trace without a
\* benchmark request, and the empty trace
TokenTraceSet ==
    {<<BenchmarkSpan("a"), s>> : s \in TokenSpans("a")}
        \cup {<<s, BenchmarkSpan("b"), s2>> : s \in SecondSpans("b"), s2 \in SecondSpans("b")}
        \cup {<<WithTags(ChatSpan("c"), Tags(Some("5"), Some("5"), Some("5")))>>, <<>>}

InitTokens == \E trs \in SeqsUpTo(TokenTraceSet, 2) : Constructed(trs)

NextTokens == GetAiTokenUsageCall

SpecTokens == InitTokens /\ [][NextTokens]_vars

-----------------------------------------------------------------------------
(* Properties of get_ai_token_usage (SpecTokens) *)

\* the tag of a span read as an integer, 0 when it is absent or no integer
TagValue(tag) == IF tag = <<>> THEN 0 ELSE Get(ParseInt(tag[1]), 0)

RECURSIVE SumOfTag(_, _)
\* the sum of the tag named key over the AI spans with tags of a trace
SumOfTag(trace, key) ==
    IF trace = <<>> THEN 0
    ELSE (IF IsTokenSpan(trace[1]) THEN TagValue(trace[1].tags[key]) ELSE 0)
            + SumOfTag(Tail(trace), key)

\* C25: get_ai_token_usage returns one record per retained benchmark trace
\* and none for the others, in list order; each of total_tokens,
\* input_tokens and output_tokens is the sum of its tag, read as an
\* integer, over the spans of the trace that carry tags and whose
\* lower-cased name starts with 'chat'; a tag that is absent or no integer
\* is left out of its own sum only.
C25_TokenSums ==
    result.op = "tokens" =>
        LET benchmark_traces == SelectSeq(traces, IsBenchmarkTrace)
        IN  /\ Len(result.value) = Len(benchmark_traces)
            /\ \A i \in 1..Len(benchmark_traces) :
                  LET trace == benchmark_traces[i]
                      r == result.value[i]
                  IN  /\ r.trace_id = FirstTraceId(trace)
                      /\ r.total_tokens = SumOfTag(trace, "total")
                      /\ r.input_tokens = SumOfTag(trace, "input")
                      /\ r.output_tokens = SumOfTag(trace, "output")

-----------------------------------------------------------------------------
(* Span queries, and a parser from its construction through its metric     *)
(* calls                                                                   *)

\* TraceParser._create_span_dict; times stay in microseconds
CreateSpanDict(span) ==
    [trace_id |-> span.traceId[1],
     span_name |-> span.name[1],
     duration_ms |-> span.duration[1],
     timestamp |-> Get(span.timestamp, 0),
     span_id |-> Get(span.id, ""),
     parent_id |-> Get(span.parentId, "ROOT"),
     tags |-> IF "tags" \in DOMAIN span THEN span.tags ELSE <<>>]

RECURSIVE Flatten(_)
\* the spans of all traces, trace by trace
Flatten(trs) == IF trs = <<>> THEN <<>> ELSE trs[1] \o Flatten(Tail(trs))

\* TraceParser._filter_spans_by_pattern; span['traceId'] of line 80 raises
\* KeyError for a selected span without 'traceId'
FilterSpansByPattern(trs, pattern, startswith) ==
    LET Selected(span) ==
            /\ span.name # <<>>
            /\ span.duration # <<>>
            /\ LET name_lower == Lower(span.name[1])
                   pattern_lower == Lower(pattern)
               IN  \/ startswith /\ StartsWith(name_lower, pattern_lower)
                   \/ ~startswith /\ Contains(name_lower, pattern_lower)
        matching == SelectSeq(Flatten(trs), Selected)
    IN  IF \E i \in 1..Len(matching) : matching[i].traceId = <<>>
        THEN [raised |-> "KeyError", value |-> <<>>]
        ELSE [raised |-> "none",
              value |-> List([i \in 1..Len(matching) |-> CreateSpanDict(matching[i])])]

\* the names get_spans_by_name is called with
QueriedNames == {"gmail", "Chat", "analyze"}

\* get_spans_by_name(span_name)
GetSpansByNameCall ==
    /\ pc = "ready"
    /\ calls < MaxCalls
    /\ calls' = calls + 1
    /\ \E span_name \in QueriedNames :
          result' = Call("spans", <<span_name>>, FilterSpansByPattern(traces, span_name, FALSE))
    /\ UNCHANGED <<statsVars, batchVars, walkVars, pc, file, warmup_iterations, traces, error>>

\* get_benchmark_requests()
GetBenchmarkRequestsCall ==
    /\ pc = "ready"
    /\ calls < MaxCalls
    /\ calls' = calls + 1
    /\ result' = Call("spans", <<"benchmark/analyze">>,
                      FilterSpansByPattern(traces, "benchmark/analyze", FALSE))
    /\ UNCHANGED <<statsVars, batchVars, walkVars, pc, file, warmup_iterations, traces, error>>

\* one benchmark iteration that starts at tick t: the request, a Gmail span
\* and an AI span with token tags
Iteration(tid, t) ==
    <<Span(Some("1"), None, Some(BenchmarkName), Some(t * Tick), Some(2 * Tick), Some(tid)),
      Span(Some("2"), Some("1"), Some("Gmail.get"), Some(t * Tick), Some(Tick), Some(tid)),
      WithTags(Span(Some("3"), Some("1"), Some("Chat completion"), Some(t * Tick), Some(2 * Tick),
                    Some(tid)),
               Tags(Some("12"), Some("5"), Some("abc")))>>

\* three iterations listed in any order, a trace without a benchmark
\* request, a benchmark request without 'traceId', and the empty trace
CallTraceSet ==
    {Iteration("a", 0), Iteration("b", 1), Iteration("c", 2), OtherTrace("d"), <<>>,
     <<Span(Some("1"), None, Some(BenchmarkName), Some(0), Some(Tick), None)>>}

\* warmup_iterations of the parsers
CallWarmups == {0, 1, 2}

InitCalls ==
    /\ pc = "new"
    /\ file \in {MissingFile} \cup {WrapperFile(trs) : trs \in SeqsUpTo(CallTraceSet, 3)}
    /\ warmup_iterations \in CallWarmups
    /\ traces = <<>>
    /\ error = "none"
    /\ result = NoCall
    /\ calls = 0
    /\ NoSamples
    /\ NoWalk
    /\ NoBatch

NextCalls ==
    \/ LoadTraces
    \/ ExcludeWarmup
    \/ GetGmailApiCriticalIo
    \/ GetAiApiCriticalIo
    \/ GetTotalCriticalIo
    \/ GetAiTokenUsageCall
    \/ GetSpansByNameCall
    \/ GetBenchmarkRequestsCall

SpecCalls == InitCalls /\ [][NextCalls]_vars

-----------------------------------------------------------------------------
(* Properties of a parser through its metric calls (SpecCalls) *)

\* what the metric operation op, called with the given patterns or name,
\* returns on the traces trs
Outcome(op, patterns, trs) ==
    IF op = "union" THEN GetCriticalIoUnionIntervals(trs, patterns)
    ELSE IF op = "tokens" THEN [raised |-> "none", value |-> GetAiTokenUsage(trs)]
    ELSE FilterSpansByPattern(trs, patterns[1], FALSE)

\* C24: the retained traces are fixed at load time.  Warm-up exclusion is
\* the one step from the loaded list to the ready parser; no metric is
\* computed before it; once the parser is ready no metric call changes the
\* list of traces (nor the file or warmup_iterations); and every call
\* returns what its operation gives on that list, so a call repeated
\* returns the same result.
C24_TracesFixedAtLoad ==
    [][/\ pc = "loaded" =>
             /\ pc' = "ready"
             /\ traces' = ExcludeWarmupIterations(traces, warmup_iterations)
             /\ calls' = calls
       /\ traces' # traces => pc \in {"new", "loaded"}
       /\ calls' # calls =>
             /\ pc = "ready"
             /\ result' = Call(result'.op, result'.patterns,
                               Outcome(result'.op, result'.patterns, traces'))
             /\ (result'.op = result.op /\ result'.patterns = result.patterns) =>
                    result' = result
       /\ pc = "ready" =>
             /\ pc' = "ready"
             /\ traces' = traces
             /\ file' = file
             /\ warmup_iterations' = warmup_iterations]_vars

\* C24 witness: the constructor dropped one of three iterations as warm-up,
\* a further exclusion would drop another one, and two metric calls have
\* been made: the two remaining iterations are still there.
C24_Witness ==
    /\ pc = "ready"
    /\ calls = 2
    /\ warmup_iterations = 1
    /\ Len(file.payload) = 3
    /\ Len(traces) = 2
    /\ traces = ExcludeWarmupIterations(file.payload, warmup_iterations)
    /\ Len(ExcludeWarmupIterations(traces, warmup_iterations)) = 1
    /\ result.op = "tokens"

====
